---- MODULE Spec2Model ----
(***************************************************************************)
(* A model of the RAG query pipeline of wow-rag-api (rag.service.ts and    *)
(* the agents and model clients it calls).                                 *)
(*                                                                         *)
(* Strings of the program are sequences of one-character strings, so that  *)
(* length, concatenation, join, trim, lower-casing and substring search    *)
(* are computed as the program computes them.                              *)
(***************************************************************************)
EXTENDS Integers, Sequences, FiniteSets, TLC

VARIABLES
    \* ---- context packer (buildContextFromDocs) ----
    pkDocs,      \* the document list handed to buildContextFromDocs
    pkBudget,    \* maxChars
    pkOut,       \* its result {context, docIndexMap}, or NoResult
    pkPc,        \* "ready" | "done" ("off" outside SpecPack)
    \* ---- verifier (verifyAnswer) ----
    verAnswer,   \* the answer handed to verifyAnswer
    verContext,  \* the context handed to verifyAnswer
    verCalls,    \* remote calls (callHfModel) made by verifyAnswer
    verResp,     \* the HTTP response the verifier's callHfModel receives
    verOut,      \* verifyAnswer's result {confident, reason}, or NoResult
    verPc,       \* "ready" | "done" ("off" outside SpecVerify)
    \* ---- RagService and one query in flight ----
    config,          \* RAGConfig flags and NODE_ENV, fixed at construction
    vectorStore,     \* NullStore before initializeVectorStore, then StoreOf(docs)
    similarityAgent, \* TRUE when this.similarityAgent is set
    generationAgent, \* TRUE when this.generationAgent is set
    qPc,             \* where the query is: "idle", ..., "done"
    qQuestion,       \* the question of the query in flight
    qTry,            \* "main": inside query()'s try; "fallback": inside its catch
    qInitialized,    \* the vector store was set when query() was called
    qDocs,           \* retrieved / relevantDocs of the running pipeline
    qBlizzard,       \* blizzardContext
    qContext,        \* {context, docIndexMap} of queryLegacy, or NoResult
    modelIdx,        \* tryModelsWithVerification: index of `model` in models
    attempt,         \* tryModelsWithVerification: attempt
    genCalls,        \* calls of callHfModel for generation, per model index
    modelLog,        \* what happened in the last two attempts on the current model
    legacyRuns,      \* number of queryLegacy invocations of this query
    qAllEmpty,       \* every generation attempt of this query returned ""
    qGenTried,       \* some generation attempt was made in this query
    qResult,         \* NoResult, or what query() returned or threw
    \* ---- HuggingFaceEmbeddingClient.embed over makeRequest ----
    clMaxRetries,    \* this.config.maxRetries
    clText,          \* the text handed to embed
    clRetry,         \* makeRequest: retryCount of the running attempt
    clFetches,       \* fetch calls made by this embed call
    clResult,        \* what embed returned or threw, or NoResult
    clPc,            \* "ready" | "fetch" | "done" ("off" outside SpecEmbed)
    \* ---- HuggingFaceEmbeddingClient.embedBatch ----
    ebTexts,         \* the texts handed to embedBatch
    ebResults,       \* results of the embed calls, by position (NoResult: pending)
    ebOut,           \* what embedBatch returned or threw, or NoResult
    ebPc,            \* "ready" | "waiting" | "done" ("off" outside SpecBatch)
    \* ---- HuggingFaceEmbeddingClient.findMostSimilar ----
    fsQuery,         \* queryEmbedding
    fsCands,         \* candidateEmbeddings
    fsK,             \* topK
    fsOut,           \* its result, or NoResult
    fsPc,            \* "ready" | "done" ("off" outside SpecSimilar)
    \* ---- RagService.rerankDocuments ----
    rrQuestion,      \* question
    rrDocs,          \* docs
    rrOut,           \* the reranked list, or NoResult
    rrPc,            \* "ready" | "done" ("off" outside SpecRerank)
    \* ---- RagService: startup load, addDocument calls and retrievals ----
    ixLoadPc,        \* onModuleInit: "created" | "loading" | "embedding" | "ready" | "failed"
    ixCorpus,        \* the documents loadInitialDocuments returned
    addPc,           \* per addDocument call: "idle" | "embedding" | "done" | "threw" | "failed"
    addDoc,          \* per addDocument call: the Document it built, or NoResult
    ixqPc,           \* per retrieval: "idle" | "embedding" | "done" | "threw" | "failed"
    ixqEarly,        \* per retrieval/add call: it arrived before the load completed
    ixqAfter,        \* per retrieval: the addDocument calls completed when it started
    ixqDuring,       \* per retrieval: the addDocument calls that ran while it was running
    ixqScanned,      \* per retrieval: the entries similaritySearch scanned
    \* ---- BaseAgentImpl: initialize and getHealthyClient ----
    hcPrimary,       \* config.modelNames
    hcFallback,      \* config.fallbackModels
    hcClients,       \* the keys of modelClients
    hcInit,          \* initialize(): "running" | "done" | "failed", and the clients created
    hcProbes,        \* the loop iterations of the running getHealthyClient call
    hcOut,           \* what getHealthyClient returned, or NoResult
    hcPc,            \* "idle" | "probing" | "done" ("off" outside SpecAgent)
    \* ---- ModelFactory: createClient and clearCache ----
    mfCache,         \* clientCache: the set of [key, client] entries
    mfCreated,       \* number of clients constructed so far (their identities)
    mfCalls,         \* the createClient calls since the last clearCache
    mfPc,            \* "ready" ("off" outside SpecFactory)
    \* ---- BlizzardService: getAccessToken ----
    tkClock,         \* Date.now(), in milliseconds
    tkAccessToken,   \* this.accessToken: 0 for null, else the token's number
    tkTokenExpiry,   \* this.tokenExpiry
    tkIssued,        \* the tokens the OAuth endpoint issued: [at, expiresIn]
    tkCall,          \* per caller: the state of its getAccessToken call
    tkPc,            \* "ready" ("off" outside SpecToken)
    \* ---- LangGraphWorkflow: execute over the compiled graph ----
    wfCompiled,      \* this.workflow is set (initializeWorkflow was called)
    wfQuestion,      \* state.question
    wfNode,          \* the node to run next, "END", "idle" or "returned" ("off" elsewhere)
    wfStep,          \* state.currentStep
    wfRag,           \* state.ragResult, or NoResult
    wfBlz,           \* state.blizzardResult, or NoResult
    wfFinal,         \* state.finalResult, or NoResult
    wfTrace,         \* the nodes executed by this invoke, in order
    wfBudget,        \* the node executions the recursion limit leaves room for
    wfOut,           \* what execute() returned or threw, or NoResult
    \* ---- BaseAgentImpl.executeWithRetry, one call ----
    rtMaxRetries,    \* this.config.maxRetries
    rtAttempt,       \* attempt, the loop variable
    rtRunning,       \* attempts whose operation() promise is still pending
    rtLastError,     \* lastError: Null or [message |-> ...]
    rtLog,           \* what the call did, in order: op, ok, fail, timeout, sleep
    rtOut,           \* the AgentResult returned, what was thrown, or NoResult
    rtPc,            \* "idle" | "attempt" | "racing" | "sleeping" | "returned"
    \* ---- GenerationAgentImpl.generateWithVerification over generate ----
    gvMaxRetries,    \* this.config.maxRetries of the generation agent
    gvOuter,         \* attempt of generateWithVerification's executeWithRetry
    gvInner,         \* attempt of generate's executeWithRetry
    gvGenerations,   \* client.generate calls made by this call
    gvOut,           \* the AgentResult returned, or NoResult
    gvPc,            \* "idle" | "outer" | "inner" | "verify" | "returned"
    \* ---- LangGraphWorkflow.executeParallel ----
    epQuestion,      \* question
    epSettled,       \* the agents whose promise has settled, in order
    epRag,           \* what executeRagAgent resolved with, NoResult for undefined
    epBlz,           \* what executeBlizzardAgent resolved with, NoResult for undefined
    epOut,           \* what executeParallel returned or threw, or NoResult
    epPc,            \* "idle" | "agents" | "returned"
    \* ---- AgentOrchestratorImpl ----
    orAgents,        \* this.agents: name -> agent, NoAgent where the name is absent
    orAgentsByType,  \* this.agentsByType: type -> list of agents
    orCalls,         \* registerAgent calls made so far
    owWorkflow,      \* executeWorkflow: workflow {steps, fallbackStrategy}
    owIndex,         \* position of the loop over workflow.steps, from 1
    owContext,       \* currentContext {documents, previousResults}
    owStepResults,   \* stepResults
    owLog,           \* the steps looked at by this run, in order
    owOut,           \* what executeWorkflow returned or threw, or NoResult
    owPc             \* "idle" | "loop" | "retry" | "returned"

packVars == <<pkDocs, pkBudget, pkOut, pkPc>>
verVars == <<verAnswer, verContext, verCalls, verResp, verOut, verPc>>
svcVars == <<config, vectorStore, similarityAgent, generationAgent>>
tryVars == <<modelIdx, attempt, genCalls, modelLog>>
qVars == <<qPc, qQuestion, qTry, qInitialized, qDocs, qBlizzard, qContext, tryVars,
           legacyRuns, qAllEmpty, qGenTried, qResult>>

reqVars == <<clMaxRetries, clText, clRetry, clFetches, clResult, clPc>>
ebVars == <<ebTexts, ebResults, ebOut, ebPc>>
fsVars == <<fsQuery, fsCands, fsK, fsOut, fsPc>>
rrVars == <<rrQuestion, rrDocs, rrOut, rrPc>>
ixVars == <<ixLoadPc, ixCorpus, addPc, addDoc, ixqPc, ixqEarly, ixqAfter, ixqDuring, ixqScanned>>
hcVars == <<hcPrimary, hcFallback, hcClients, hcInit, hcProbes, hcOut, hcPc>>
mfVars == <<mfCache, mfCreated, mfCalls, mfPc>>
tkVars == <<tkClock, tkAccessToken, tkTokenExpiry, tkIssued, tkCall, tkPc>>
wfVars == <<wfCompiled, wfQuestion, wfNode, wfStep, wfRag, wfBlz, wfFinal, wfTrace,
           wfBudget, wfOut>>
rtVars == <<rtMaxRetries, rtAttempt, rtRunning, rtLastError, rtLog, rtOut, rtPc>>
gvVars == <<gvMaxRetries, gvOuter, gvInner, gvGenerations, gvOut, gvPc>>
epVars == <<epQuestion, epSettled, epRag, epBlz, epOut, epPc>>
orVars == <<orAgents, orAgentsByType, orCalls, owWorkflow, owIndex, owContext,
           owStepResults, owLog, owOut, owPc>>
lateVars == <<rtVars, gvVars, epVars, orVars>>
earlyVars == <<packVars, verVars, svcVars, qVars, reqVars, ebVars, fsVars, rrVars, ixVars,
               hcVars, mfVars, tkVars, wfVars>>
extVars == <<ixVars, hcVars, mfVars, tkVars, wfVars, lateVars>>
libVars == <<reqVars, ebVars, fsVars, rrVars, extVars>>

vars == <<packVars, verVars, svcVars, qVars, libVars>>

NoResult == [none |-> TRUE]
Null == [null |-> TRUE]

\* private vectorStore: MemoryVectorStore | null = null
NullStore == [initialized |-> FALSE, docs |-> <<>>]
\* a MemoryVectorStore holding docs
StoreOf(docs) == [initialized |-> TRUE, docs |-> docs]

(***************************************************************************)
(* Text helpers (JavaScript String operations)                             *)
(***************************************************************************)

\* the decimal digits, indexed by value + 1
Digits == <<"0","1","2","3","4","5","6","7","8","9">>

\* String(n) for a non-negative integer: template literal `${i + 1}`
RECURSIVE NumStr(_)
NumStr(n) ==
    IF n < 10 THEN <<Digits[n + 1]>>
    ELSE NumStr(n \div 10) \o <<Digits[(n % 10) + 1]>>

\* Array.prototype.join(sep)
RECURSIVE Join(_, _)
Join(parts, sep) ==
    IF Len(parts) = 0 THEN <<>>
    ELSE IF Len(parts) = 1 THEN parts[1]
    ELSE parts[1] \o sep \o Join(Tail(parts), sep)

\* String.prototype.includes(sub)
Includes(s, sub) ==
    \E i \in 0..(Len(s) - Len(sub)) : SubSeq(s, i + 1, i + Len(sub)) = sub

UpperCase == <<"A","B","C","D","E","F","G","H","I","J","K","L","M",
               "N","O","P","Q","R","S","T","U","V","W","X","Y","Z">>
LowerCase == <<"a","b","c","d","e","f","g","h","i","j","k","l","m",
               "n","o","p","q","r","s","t","u","v","w","x","y","z">>

\* String.prototype.toLowerCase()
ToLowerCase(s) ==
    [i \in 1..Len(s) |->
        IF \E k \in 1..26 : UpperCase[k] = s[i]
        THEN LowerCase[CHOOSE k \in 1..26 : UpperCase[k] = s[i]]
        ELSE s[i]]

WhiteSpace == {" ", "\n", "\t", "\r"}

RECURSIVE TrimStart(_)
TrimStart(s) ==
    IF s # <<>> /\ Head(s) \in WhiteSpace THEN TrimStart(Tail(s)) ELSE s

RECURSIVE TrimEnd(_)
TrimEnd(s) ==
    IF s # <<>> /\ s[Len(s)] \in WhiteSpace
    THEN TrimEnd(SubSeq(s, 1, Len(s) - 1)) ELSE s

\* String.prototype.trim()
Trim(s) == TrimEnd(TrimStart(s))

\* s.split("\n")[0]
RECURSIVE FirstLine(_)
FirstLine(s) ==
    IF s = <<>> \/ Head(s) = "\n" THEN <<>> ELSE <<Head(s)>> \o FirstLine(Tail(s))

\* x || "unknown" on a string: the empty (or absent) string is falsy
OrUnknown(s) == IF s = <<>> THEN <<"u","n","k","n","o","w","n">> ELSE s

(***************************************************************************)
(* Context packer: RagService.buildContextFromDocs                          *)
(***************************************************************************)

\* const header = `[doc:${i + 1} | topic:... | source:...]\n`
DocHeader(doc, n) ==
    <<"[","d","o","c",":">> \o NumStr(n)
      \o <<" ","|"," ","t","o","p","i","c",":">> \o OrUnknown(doc.topic)
      \o <<" ","|"," ","s","o","u","r","c","e",":">> \o OrUnknown(doc.source)
      \o <<"]","\n">>

\* const text = `${header}${doc.pageContent}\n---\n`
DocText(doc, n) == DocHeader(doc, n) \o doc.pageContent \o <<"\n","-","-","-","\n">>

\* A plausible slip: `continue` instead of `break` on an over-budget document.
RECURSIVE PackLoopSkipping(_, _, _, _, _, _)
PackLoopSkipping(docs, maxChars, n, chars, parts, map) ==
    IF n > Len(docs) THEN [parts |-> parts, map |-> map]
    ELSE LET text == DocText(docs[n], n) IN
         IF chars + Len(text) > maxChars
         THEN PackLoopSkipping(docs, maxChars, n + 1, chars, parts, map)
         ELSE PackLoopSkipping(docs, maxChars, n + 1, chars + Len(text),
                               Append(parts, text), map @@ (n :> docs[n]))

\* The for loop of buildContextFromDocs; n is the source's i + 1.
RECURSIVE PackLoop(_, _, _, _, _, _)
PackLoop(docs, maxChars, n, chars, parts, map) ==
    IF n > Len(docs) THEN [parts |-> parts, map |-> map]
    ELSE LET text == DocText(docs[n], n) IN
         IF chars + Len(text) > maxChars
         THEN [parts |-> parts, map |-> map]                       \* break
         ELSE PackLoop(docs, maxChars, n + 1, chars + Len(text),
                       Append(parts, text), map @@ (n :> docs[n]))

\* return { context: parts.join("\n"), docIndexMap: map }
buildContextFromDocs(docs, maxChars) ==
    LET r == PackLoop(docs, maxChars, 1, 0, <<>>, <<>>)
    IN  [context |-> Join(r.parts, <<"\n">>), docIndexMap |-> r.map]

(***************************************************************************)
(* Lexical reranker: RagService.rerankDocuments                            *)
(***************************************************************************)

DigitChars == {"0","1","2","3","4","5","6","7","8","9"}
Letters == {UpperCase[k] : k \in 1..26} \cup {LowerCase[k] : k \in 1..26}

\* \w : [A-Za-z0-9_]
IsWordChar(c) == c \in Letters \cup DigitChars \cup {"_"}

\* the complement of the separator class [^\w']
IsTokenChar(c) == IsWordChar(c) \/ c = "'"

\* text.split(/[^\w']+/).filter(Boolean): the maximal runs of token characters
RECURSIVE SplitTokens(_, _, _)
SplitTokens(s, cur, acc) ==
    IF s = <<>> THEN (IF cur = <<>> THEN acc ELSE Append(acc, cur))
    ELSE IF IsTokenChar(Head(s)) THEN SplitTokens(Tail(s), Append(cur, Head(s)), acc)
    ELSE SplitTokens(Tail(s), <<>>, IF cur = <<>> THEN acc ELSE Append(acc, cur))

Tokenize(text) == SplitTokens(text, <<>>, <<>>)

\* qTokens.reduce((acc, t) => acc + (tokens.includes(t) ? 1 : 0), 0)
RECURSIVE Overlap(_, _)
Overlap(qTokens, tokens) ==
    IF qTokens = <<>> THEN 0
    ELSE (IF \E k \in 1..Len(tokens) : tokens[k] = Head(qTokens) THEN 1 ELSE 0)
         + Overlap(Tail(qTokens), tokens)

\* A plausible slip: the overlap count is not divided by the token count.
ScoreDocUnnormalised(qTokens, doc) ==
    LET tokens == Tokenize(ToLowerCase(doc.pageContent))
    IN  [doc |-> doc,
         num |-> IF Len(tokens) > 0 THEN Overlap(qTokens, tokens) ELSE 0,
         den |-> 1]

\* { doc, score: tokens.length ? overlap / tokens.length : 0 }, the score kept
\* as the fraction num / den
ScoreDoc(qTokens, doc) ==
    LET tokens == Tokenize(ToLowerCase(doc.pageContent))
    IN  [doc |-> doc,
         num |-> IF Len(tokens) > 0 THEN Overlap(qTokens, tokens) ELSE 0,
         den |-> IF Len(tokens) > 0 THEN Len(tokens) ELSE 1]

\* b.score - a.score > 0 : b sorts before a
ScoreGreater(b, a) == b.num * a.den > a.num * b.den

\* A plausible slip: a sort that is not stable, an item moving in front of
\* the items of equal score already placed.
RECURSIVE InsertByScoreUnstable(_, _)
InsertByScoreUnstable(sorted, x) ==
    IF sorted = <<>> THEN <<x>>
    ELSE IF ~(Head(sorted).num * x.den > x.num * Head(sorted).den) THEN <<x>> \o sorted
    ELSE <<Head(sorted)>> \o InsertByScoreUnstable(Tail(sorted), x)

\* Array.prototype.sort((a, b) => b.score - a.score): stable, descending
RECURSIVE InsertByScore(_, _)
InsertByScore(sorted, x) ==
    IF sorted = <<>> THEN <<x>>
    ELSE IF ScoreGreater(x, Head(sorted)) THEN <<x>> \o sorted
    ELSE <<Head(sorted)>> \o InsertByScore(Tail(sorted), x)

RECURSIVE SortByScore(_)
SortByScore(items) ==
    IF items = <<>> THEN <<>>
    ELSE InsertByScore(SortByScore(SubSeq(items, 1, Len(items) - 1)), items[Len(items)])

rerankDocuments(question, docs) ==
    LET qTokens == Tokenize(ToLowerCase(question))
        scored == SortByScore([i \in 1..Len(docs) |-> ScoreDoc(qTokens, docs[i])])
    IN  [i \in 1..Len(docs) |-> scored[i].doc]

\* Array.prototype.slice(0, k)
Take(seq, k) == SubSeq(seq, 1, IF Len(seq) < k THEN Len(seq) ELSE k)

(***************************************************************************)
(* Live-data enrichment: RagService.fetchBlizzardContext                   *)
(***************************************************************************)

\* [\w-'] of the realm-name pattern
IsRealmChar(c) == IsWordChar(c) \/ c \in {"-", "'"}

\* length of the longest prefix of s whose characters all satisfy the class
RECURSIVE RunLen(_, _)
RunLen(s, isWs) ==
    IF s # <<>> /\ (IF isWs THEN Head(s) \in WhiteSpace ELSE IsRealmChar(Head(s)))
    THEN 1 + RunLen(Tail(s), isWs) ELSE 0

Drop(s, k) == SubSeq(s, k + 1, Len(s))

\* greedy [\w-']+(?:\s+[\w-']+)* at the start of s: the length matched
RECURSIVE RealmNameLen(_)
RealmNameLen(s) ==
    LET w == RunLen(s, FALSE)
        rest == Drop(s, w)
        ws == RunLen(rest, TRUE)
        more == Drop(rest, ws)
    IN  IF w = 0 THEN 0
        ELSE IF ws > 0 /\ RunLen(more, FALSE) > 0 THEN w + ws + RealmNameLen(more)
        ELSE w

\* /realm\s+([\w-']+(?:\s+[\w-']+)*)/i .exec(question): capture group 1 of the
\* leftmost match, or <<>> when there is none
RealmCapture(question) ==
    LET q == ToLowerCase(question)
        realm == <<"r","e","a","l","m">>
        Matches(i) ==
            /\ SubSeq(q, i, i + 4) = realm
            /\ RunLen(Drop(question, i + 4), TRUE) > 0
            /\ RunLen(Drop(question, i + 4 + RunLen(Drop(question, i + 4), TRUE)), FALSE) > 0
        starts == {i \in 1..(Len(q) - 4) : Matches(i)}
    IN  IF starts = {} THEN <<>>
        ELSE LET i == CHOOSE j \in starts : \A k \in starts : j <= k
                 name == Drop(question, i + 4 + RunLen(Drop(question, i + 4), TRUE))
             IN  SubSeq(name, 1, RealmNameLen(name))

\* m[1].toLowerCase().replace(/\s+/g, "-").replace(/'/g, "")
RECURSIVE DashSpaces(_)
DashSpaces(s) ==
    IF s = <<>> THEN <<>>
    ELSE IF Head(s) \in WhiteSpace
         THEN <<"-">> \o DashSpaces(Drop(s, RunLen(s, TRUE)))
         ELSE <<Head(s)>> \o DashSpaces(Tail(s))

RealmSlug(name) == SelectSeq(DashSpaces(ToLowerCase(name)), LAMBDA c : c # "'")

\* JSON.stringify(realmData, null, 2) of the realm object {slug: <slug>}
RealmJson(slug) ==
    <<"{","\n"," "," ","\"","s","l","u","g","\"",":"," ","\"">> \o slug \o <<"\"","\n","}">>

\* `\n\nLive Blizzard API Data:\n${JSON.stringify(realmData, null, 2)}`
LiveDataText(slug) ==
    <<"\n","\n","L","i","v","e"," ","B","l","i","z","z","a","r","d"," ","A","P","I"," ",
      "D","a","t","a",":","\n">> \o RealmJson(slug)

\* The Blizzard API is consulted only when the question names a realm.
AsksForRealm(question) ==
    /\ Includes(ToLowerCase(question), <<"r","e","a","l","m">>)
    /\ RealmCapture(question) # <<>>

\* fetchBlizzardContext(question), given whether getRealmData succeeds:
\* every error is caught and yields ""
fetchBlizzardContext(question, apiOk) ==
    IF AsksForRealm(question) /\ apiOk
    THEN LiveDataText(RealmSlug(RealmCapture(question)))
    ELSE <<>>

(***************************************************************************)
(* RagService.callHfModel: one POST to the inference API                   *)
(*                                                                         *)
(* An HTTP exchange is one of                                              *)
(*   [kind |-> "reject"]                    fetch() rejects                *)
(*   [kind |-> "http", ok |-> FALSE]        non-2xx status                 *)
(*   [kind |-> "http", ok |-> TRUE, data |-> d]  with the JSON body d:     *)
(*     [shape |-> "badjson"]                response.json() throws         *)
(*     [shape |-> "error", error |-> s]     {error: s}                     *)
(*     [shape |-> "array", generated_text |-> s, text |-> t]   [{...}]     *)
(*     [shape |-> "object", generated_text |-> s]                          *)
(*     [shape |-> "string", value |-> s]                                   *)
(* The result is the returned string, or threw = TRUE.                     *)
(***************************************************************************)

Returned(s) == [threw |-> FALSE, value |-> s]
Threw == [threw |-> TRUE, value |-> <<>>]

\* the backend's JSON body is {error: "... loading ..."}
ReportsLoading(resp) ==
    /\ resp.kind = "http"
    /\ resp.ok
    /\ resp.data.shape = "error"
    /\ Includes(resp.data.error, <<"l","o","a","d","i","n","g">>)

\* A plausible slip: the loading report is raised as an error instead of
\* being answered with the empty string.
callHfModelThrowsOnLoading(resp) ==
    IF resp.kind = "reject" THEN Threw
    ELSE IF ~resp.ok THEN Returned(<<>>)
    ELSE LET data == resp.data IN
         IF data.shape = "badjson" THEN Threw
         ELSE IF data.shape = "error"
                 /\ Includes(data.error, <<"l","o","a","d","i","n","g">>)
              THEN Threw
         ELSE IF data.shape = "array"
              THEN Returned(IF data.generated_text # <<>> THEN data.generated_text
                            ELSE data.text)
         ELSE IF data.shape = "object" THEN Returned(data.generated_text)
         ELSE IF data.shape = "string" THEN Returned(data.value)
         ELSE Returned(<<>>)

callHfModel(resp) ==
    IF resp.kind = "reject" THEN Threw
    ELSE IF ~resp.ok THEN Returned(<<>>)
    ELSE LET data == resp.data IN
         IF data.shape = "badjson" THEN Threw
         ELSE IF data.shape = "error"
                 /\ Includes(data.error, <<"l","o","a","d","i","n","g">>)
              THEN Returned(<<>>)
         ELSE IF data.shape = "array"
              THEN Returned(IF data.generated_text # <<>> THEN data.generated_text
                            ELSE data.text)
         ELSE IF data.shape = "object" THEN Returned(data.generated_text)
         ELSE IF data.shape = "string" THEN Returned(data.value)
         ELSE Returned(<<>>)

HttpReject == [kind |-> "reject"]
HttpNotOk == [kind |-> "http", ok |-> FALSE]
HttpBadJson == [kind |-> "http", ok |-> TRUE, data |-> [shape |-> "badjson"]]
HttpLoading ==
    [kind |-> "http", ok |-> TRUE,
     data |-> [shape |-> "error",
               error |-> <<"M","o","d","e","l"," ","x"," ","i","s"," ","c","u","r","r",
                           "e","n","t","l","y"," ","l","o","a","d","i","n","g">>]]
HttpError ==
    [kind |-> "http", ok |-> TRUE,
     data |-> [shape |-> "error", error |-> <<"r","a","t","e"," ","l","i","m","i","t">>]]
HttpGenerated(s) ==
    [kind |-> "http", ok |-> TRUE,
     data |-> [shape |-> "array", generated_text |-> s, text |-> <<>>]]

(***************************************************************************)
(* RagService.verifyAnswer                                                 *)
(***************************************************************************)

\* A plausible slip: a verifier that fails open, accepting the answer when
\* its own call fails.
verifyAnswerFailsOpen(resp) ==
    LET r == callHfModel(resp) IN
    IF r.threw
    THEN [confident |-> TRUE,
          reason |-> <<"v","e","r","i","f","i","e","r"," ","e","r","r","o","r">>]
    ELSE IF r.value = <<>>
    THEN [confident |-> FALSE,
          reason |-> <<"n","o"," ","v","e","r","i","f","i","e","r"," ","r","e","s","p",
                       "o","n","s","e">>]
    ELSE IF Includes(ToLowerCase(r.value), <<"v","e","r","i","f","i","e","d">>)
    THEN [confident |-> TRUE,
          reason |-> <<"v","e","r","i","f","i","e","r"," ","c","o","n","f","i","r","m",
                       "e","d">>]
    ELSE [confident |-> FALSE, reason |-> FirstLine(Trim(r.value))]

\* The try block: v = await callHfModel(...); catch => "verifier error"
verifyAnswer(resp) ==
    LET r == callHfModel(resp) IN
    IF r.threw
    THEN [confident |-> FALSE,
          reason |-> <<"v","e","r","i","f","i","e","r"," ","e","r","r","o","r">>]
    ELSE IF r.value = <<>>
    THEN [confident |-> FALSE,
          reason |-> <<"n","o"," ","v","e","r","i","f","i","e","r"," ","r","e","s","p",
                       "o","n","s","e">>]
    ELSE IF Includes(ToLowerCase(r.value), <<"v","e","r","i","f","i","e","d">>)
    THEN [confident |-> TRUE,
          reason |-> <<"v","e","r","i","f","i","e","r"," ","c","o","n","f","i","r","m",
                       "e","d">>]
    ELSE [confident |-> FALSE, reason |-> FirstLine(Trim(r.value))]

(***************************************************************************)
(* Verifier replies the bounded checks draw from: an optional prefix, a    *)
(* verdict word and an optional explanation line, as the verifier prompt   *)
(* prescribes ("VERIFIED\nReason: ..." / "NOT VERIFIED\nUnsupported: ...") *)
(***************************************************************************)

ReplyPrefixes == {<<>>, <<" ">>, <<"N","O","T"," ">>, <<"n","o","t"," ">>}
ReplyWords == {<<>>, <<"V","E","R","I","F","I","E","D">>,
               <<"V","e","r","i","f","i","e","d">>,
               <<"v","e","r","i","f","i","e","d">>,
               <<"u","n","s","u","p","p","o","r","t","e","d">>}
ReplyTails == {<<>>, <<" ">>, <<"\n","R","e","a","s","o","n",":"," ","o","k">>,
               <<"\n","U","n","s","u","p","p","o","r","t","e","d",":"," ","x">>}

VerifierReplies == {p \o w \o t : p \in ReplyPrefixes, w \in ReplyWords, t \in ReplyTails}

VerifierResponses ==
    {HttpGenerated(v) : v \in VerifierReplies}
      \cup {HttpReject, HttpNotOk, HttpBadJson, HttpLoading, HttpError}

(***************************************************************************)
(* RagService: constants of the query pipeline                             *)
(***************************************************************************)

\* queryLegacy: const modelList = [...]
ModelList == <<"google/embeddinggemma-300m",
               "ibm-granite/granite-embedding-english-r2",
               "distilbert/distilbert-base-uncased">>

MaxAttempts == 3        \* tryModelsWithVerification: const maxAttempts = 3
BaseDelay == 500        \* tryModelsWithVerification: sleep(500 * attempt)
LegacyFetchK == 8       \* queryLegacy: similaritySearch(question, 8)
LegacyKeepK == 6        \* queryLegacy: .slice(0, 6)
LegacyBudget == 3000    \* queryLegacy: buildContextFromDocs(relevantDocs, 3000)
DefaultTopK == 6        \* retrieval.defaultTopK

NoCalls == [m \in 1..Len(ModelList) |-> 0]

\* the locals of a query that has not started
QueryReset ==
    /\ qPc = "idle"
    /\ qQuestion = <<>>
    /\ qTry = "main"
    /\ qInitialized = FALSE
    /\ qDocs = <<>>
    /\ qBlizzard = <<>>
    /\ qContext = NoResult
    /\ modelIdx = 0
    /\ attempt = 0
    /\ genCalls = NoCalls
    /\ modelLog = <<>>
    /\ legacyRuns = 0
    /\ qAllEmpty = TRUE
    /\ qGenTried = FALSE
    /\ qResult = NoResult

ServiceIdle ==
    /\ config = Null
    /\ vectorStore = NullStore
    /\ similarityAgent = FALSE
    /\ generationAgent = FALSE
    /\ QueryReset

VerIdle ==
    /\ verAnswer = <<>>
    /\ verContext = <<>>
    /\ verCalls = 0
    /\ verResp = NoResult
    /\ verOut = NoResult
    /\ verPc = "off"
PackIdle == pkDocs = <<>> /\ pkBudget = 0 /\ pkOut = NoResult /\ pkPc = "off"

ReqIdle ==
    /\ clMaxRetries = 0
    /\ clText = <<>>
    /\ clRetry = 0
    /\ clFetches = 0
    /\ clResult = NoResult
    /\ clPc = "off"

EbIdle == ebTexts = <<>> /\ ebResults = <<>> /\ ebOut = NoResult /\ ebPc = "off"

FsIdle == fsQuery = <<>> /\ fsCands = <<>> /\ fsK = 0 /\ fsOut = NoResult /\ fsPc = "off"

RrIdle == rrQuestion = <<>> /\ rrDocs = <<>> /\ rrOut = NoResult /\ rrPc = "off"
IxIdle ==
    /\ ixLoadPc = "off" /\ ixCorpus = <<>>
    /\ addPc = <<>> /\ addDoc = <<>>
    /\ ixqPc = <<>> /\ ixqEarly = <<>> /\ ixqAfter = <<>> /\ ixqDuring = <<>>
    /\ ixqScanned = <<>>
HcIdle ==
    /\ hcPrimary = <<>> /\ hcFallback = <<>> /\ hcClients = {}
    /\ hcInit = NoResult /\ hcProbes = <<>> /\ hcOut = NoResult /\ hcPc = "off"
MfIdle == mfCache = {} /\ mfCreated = 0 /\ mfCalls = <<>> /\ mfPc = "off"
TkIdle ==
    /\ tkClock = 0 /\ tkAccessToken = 0 /\ tkTokenExpiry = 0
    /\ tkIssued = <<>> /\ tkCall = <<>> /\ tkPc = "off"
WfIdle ==
    /\ wfCompiled = FALSE /\ wfQuestion = <<>> /\ wfNode = "off" /\ wfStep = "off"
    /\ wfRag = NoResult /\ wfBlz = NoResult /\ wfFinal = NoResult
    /\ wfTrace = <<>> /\ wfBudget = 0 /\ wfOut = NoResult
RtIdle ==
    /\ rtMaxRetries = 0 /\ rtAttempt = 0 /\ rtRunning = {} /\ rtLastError = Null
    /\ rtLog = <<>> /\ rtOut = NoResult /\ rtPc = "off"
GvIdle ==
    /\ gvMaxRetries = 0 /\ gvOuter = 0 /\ gvInner = 0 /\ gvGenerations = 0
    /\ gvOut = NoResult /\ gvPc = "off"
EpIdle ==
    /\ epQuestion = <<>> /\ epSettled = <<>> /\ epRag = NoResult /\ epBlz = NoResult
    /\ epOut = NoResult /\ epPc = "off"
OrIdle ==
    /\ orAgents = <<>> /\ orAgentsByType = <<>> /\ orCalls = 0
    /\ owWorkflow = NoResult /\ owIndex = 0 /\ owContext = NoResult
    /\ owStepResults = <<>> /\ owLog = <<>> /\ owOut = NoResult /\ owPc = "off"
LateIdle == RtIdle /\ GvIdle /\ EpIdle /\ OrIdle
ExtIdle == IxIdle /\ HcIdle /\ MfIdle /\ TkIdle /\ WfIdle /\ LateIdle

(***************************************************************************)
(* Specification of the verifier alone: every reply of the verifier model  *)
(***************************************************************************)

\* the packed context the verifier is given
VerifierContext ==
    <<"[","d","o","c",":","1","]"," ","E","K"," ","i","s"," ","u","p","\n","-","-","-","\n">>

\* answers handed to the verifier: one quoting a phrase of the context, one
\* quoting a phrase that is nowhere in the context, one without a quotation
VerifierAnswers ==
    {<<"\"","E","K"," ","i","s"," ","u","p","\""," ","[","d","o","c",":","1","]">>,
     <<"\"","E","K"," ","f","e","l","l","\""," ","[","d","o","c",":","1","]">>,
     <<"E","K"," ","i","s"," ","u","p">>}

InitVerify ==
    /\ verAnswer \in VerifierAnswers
    /\ verContext = VerifierContext
    /\ verCalls = 0
    /\ verResp \in VerifierResponses
    /\ verOut = NoResult
    /\ verPc = "ready"
    /\ PackIdle
    /\ ServiceIdle
    /\ ReqIdle /\ EbIdle /\ FsIdle /\ RrIdle /\ ExtIdle

VerifyAnswer ==
    /\ verPc = "ready"
    /\ verCalls' = verCalls + 1
    /\ verOut' = verifyAnswer(verResp)
    /\ verPc' = "done"
    /\ UNCHANGED <<verAnswer, verContext, verResp, packVars, svcVars, qVars, libVars>>

NextVerify == VerifyAnswer

SpecVerify == InitVerify /\ [][NextVerify]_vars

(***************************************************************************)
(* Documents the bounded checks draw from                                  *)
(***************************************************************************)

\* "Stormwind is a city" style entries, kept short; the second has neither
\* topic nor source, so its header falls back to "unknown".
DocGeo  == [pageContent |-> <<"S","w"," ","i","s"," ","E","K">>,
            topic |-> <<"g","e","o">>, source |-> <<"k","b">>]
DocBare == [pageContent |-> <<"o","r","c">>, topic |-> <<>>, source |-> <<>>]
DocLong == [pageContent |-> <<"r","e","a","l","m"," ","E","K"," ","i","s"," ","u","p">>,
            topic |-> <<"r">>, source |-> <<"u","s","e","r","-","a","d","d","e","d">>]
DocPool == {DocGeo, DocBare, DocLong}

MaxDocs == 3
MaxBudget == 140

RECURSIVE SeqsUpTo(_, _)
SeqsUpTo(S, n) ==
    IF n = 0 THEN {<<>>}
    ELSE LET shorter == SeqsUpTo(S, n - 1)
         IN  shorter \cup {Append(s, x) : s \in {t \in shorter : Len(t) = n - 1}, x \in S}

(***************************************************************************)
(* Specification of the packer alone: every document list and budget       *)
(***************************************************************************)

InitPack ==
    /\ pkDocs \in SeqsUpTo(DocPool, MaxDocs)
    /\ pkBudget \in 0..MaxBudget
    /\ pkOut = NoResult
    /\ pkPc = "ready"
    /\ VerIdle
    /\ ServiceIdle
    /\ ReqIdle /\ EbIdle /\ FsIdle /\ RrIdle /\ ExtIdle

BuildContext ==
    /\ pkPc = "ready"
    /\ pkOut' = buildContextFromDocs(pkDocs, pkBudget)
    /\ pkPc' = "done"
    /\ UNCHANGED <<pkDocs, pkBudget, verVars, svcVars, qVars, libVars>>

NextPack == BuildContext

SpecPack == InitPack /\ [][NextPack]_vars

(***************************************************************************)
(* Generation agent: GenerationAgentImpl (as used by queryWithAgents)      *)
(***************************************************************************)

StartsWith(s, prefix) == Len(s) >= Len(prefix) /\ SubSeq(s, 1, Len(prefix)) = prefix

\* processed.replace(/^(Answer:|Response:)\s*/i, '')
StripAnswerPrefix(s) ==
    LET low == ToLowerCase(s)
        a == <<"a","n","s","w","e","r",":">>
        r == <<"r","e","s","p","o","n","s","e",":">>
    IN  IF StartsWith(low, a) THEN TrimStart(Drop(s, Len(a)))
        ELSE IF StartsWith(low, r) THEN TrimStart(Drop(s, Len(r)))
        ELSE s

\* processed.replace(/\s+/g, ' ')
RECURSIVE CollapseSpaces(_)
CollapseSpaces(s) ==
    IF s = <<>> THEN <<>>
    ELSE IF Head(s) \in WhiteSpace
         THEN <<" ">> \o CollapseSpaces(Drop(s, RunLen(s, TRUE)))
         ELSE <<Head(s)>> \o CollapseSpaces(Tail(s))

postProcessGeneration(text) ==
    LET processed == Trim(CollapseSpaces(StripAnswerPrefix(Trim(text))))
    IN  IF processed # <<>> /\ processed[Len(processed)] \notin {".", "!", "?"}
        THEN processed \o <<".">>
        ELSE processed

\* verifyGeneration: four checks; hasContent and (for an empty text)
\* isCoherent follow from the text, the other checks depend on the wording
\* of the text and of the documents and are left open.
GenerationChecks(text) ==
    {[hasContent |-> Trim(text) # <<>>, isCoherent |-> c,
      hasValidCitations |-> v, isFactuallyConsistent |-> f] :
        c \in (IF Trim(text) = <<>> THEN {FALSE} ELSE BOOLEAN),
        v \in BOOLEAN, f \in BOOLEAN}

PassedChecks(checks) ==
    (IF checks.hasContent THEN 1 ELSE 0) + (IF checks.isCoherent THEN 1 ELSE 0)
      + (IF checks.hasValidCitations THEN 1 ELSE 0)
      + (IF checks.isFactuallyConsistent THEN 1 ELSE 0)

\* const verified = confidence >= 0.75, confidence = passedChecks / 4
VerifiedBy(checks) == 4 * PassedChecks(checks) >= 3 * 4

\* (confidence * 100).toFixed(1) for confidence = passed / 4
ConfidencePercent(checks) == NumStr(25 * PassedChecks(checks)) \o <<".","0">>

BoolStr(b) == IF b THEN <<"t","r","u","e">> ELSE <<"f","a","l","s","e">>

\* the development-mode suffix of queryWithAgents; modelUsed is never set by
\* executeWithRetry, so the name is 'unknown model'
GenerationMetadata(verification, checks) ==
    <<"\n","\n","_","G","e","n","e","r","a","t","e","d"," ","u","s","i","n","g",
      " ","u","n","k","n","o","w","n"," ","m","o","d","e","l">>
    \o (IF verification
        THEN <<" ","(","v","e","r","i","f","i","e","d",":"," ">> \o BoolStr(VerifiedBy(checks))
             \o <<","," ","c","o","n","f","i","d","e","n","c","e",":"," ">>
             \o ConfidencePercent(checks) \o <<"%",")","_">>
        ELSE <<"_">>)

\* raw texts a generation model returns to the agent
AgentRawTexts ==
    {<<>>,
     <<"O","r","c","s",".">>,
     <<"a","n","s","w","e","r",":"," ","S","w"," "," ","i","s"," ","E","K">>}

\* The outcome of generationAgent.generateWithVerification / generate:
\* success:false after the retries are used up, or success:true with the
\* post-processed text and the verification checks.
AgentOutcomes ==
    {[success |-> FALSE]}
      \cup UNION {{[success |-> TRUE, raw |-> t, text |-> postProcessGeneration(t),
                    checks |-> c] : c \in GenerationChecks(postProcessGeneration(t))} :
                      t \in AgentRawTexts}

(***************************************************************************)
(* RagService: the results of query()                                      *)
(***************************************************************************)

\* query() returned value; origin says which return statement produced it and
\* judged what the verification step said of it: "verified", "rejected", or
\* "none" when no verification ran
ReturnedAnswer(value, origin, judged) ==
    [kind |-> "returned", value |-> value, origin |-> origin, judged |-> judged]

ThrewError(msg) == [kind |-> "threw", error |-> msg]

ApologyText ==
    <<"I"," ","a","p","o","l","o","g","i","z","e",","," ","b","u","t"," ","I",
      "'","m"," ","u","n","a","b","l","e"," ","t","o"," ","p","r","o","c",
      "e","s","s"," ","y","o","u","r"," ","q","u","e","s","t","i","o","n",
      " ","a","t"," ","t","h","e"," ","m","o","m","e","n","t"," ","d","u",
      "e"," ","t","o"," ","t","e","c","h","n","i","c","a","l"," ","d","i",
      "f","f","i","c","u","l","t","i","e","s","."," ","P","l","e","a","s",
      "e"," ","t","r","y"," ","a","g","a","i","n"," ","l","a","t","e","r",
      ".">>

\* queryLegacy's last return; the warning sign of the source text is written (!)
FallbackText(context, blizzardContext) ==
    <<"B","a","s","e","d"," ","o","n"," ","t","h","e"," ","W","o","r","l","d",
      " ","o","f"," ","W","a","r","c","r","a","f","t"," ","k","n","o","w",
      "l","e","d","g","e"," ","b","a","s","e"," ","(","r","e","t","r","i",
      "e","v","e","d"," ","d","o","c","u","m","e","n","t","s",")",":","\n",
      "\n">>
    \o context \o blizzardContext \o
    <<"\n","\n","(","!",")"," ","N","o","t","e",":"," ","T","h","e"," ","s","y",
      "s","t","e","m"," ","c","o","u","l","d"," ","n","o","t"," ","p","r",
      "o","d","u","c","e"," ","a"," ","v","e","r","i","f","i","e","d"," ",
      "A","I"," ","a","n","s","w","e","r",";"," ","p","l","e","a","s","e",
      " ","c","h","e","c","k"," ","t","h","e"," ","s","o","u","r","c","e",
      "s"," ","a","b","o","v","e",".">>

\* A plausible slip: the inner try/catch around the second queryLegacy call is
\* missing, so its error leaves query().
QueryCatchRethrows(tryPhase) ==
    IF tryPhase = "main"
    THEN [pc |-> "legacyRetrieve", try |-> "fallback", result |-> NoResult]
    ELSE [pc |-> "done", try |-> "fallback",
          result |-> ThrewError("similaritySearch failed")]

\* A plausible slip: the outer catch clause gives up at once instead of running
\* queryLegacy.
QueryCatchApologizesAtOnce(tryPhase) ==
    [pc |-> "done", try |-> "fallback",
     result |-> ReturnedAnswer(ApologyText, "apology", "none")]

\* The catch clauses of query(): an error inside the try block starts
\* queryLegacy once more; an error inside that call returns the apology.
QueryCatch(tryPhase) ==
    IF tryPhase = "main"
    THEN [pc |-> "legacyRetrieve", try |-> "fallback", result |-> NoResult]
    ELSE [pc |-> "done", try |-> "fallback",
          result |-> ReturnedAnswer(ApologyText, "apology", "none")]

(***************************************************************************)
(* Inputs of the bounded check of the service                              *)
(***************************************************************************)

MaxCorpus == 2

\* what loadInitialDocuments may deliver: the first n rows of the CSV
Corpora == {SubSeq(<<DocGeo, DocLong, DocBare>>, 1, n) : n \in 0..MaxCorpus}

\* a plain question, one that names a realm, and a blank one
Questions ==
    {<<"E","K"," ","o","r","c","?">>,
     <<"R","e","a","l","m"," ","E","K"," ","u","p","?">>,
     <<" ">>}

\* DEFAULT_RAG_CONFIG with NODE_ENV other than 'development'
DefaultConfig ==
    [similarityEnabled |-> TRUE, generationEnabled |-> TRUE,
     rerankingEnabled |-> TRUE, verificationEnabled |-> TRUE,
     development |-> FALSE]

\* the default configuration and each configuration one setting away from it
Configs ==
    {DefaultConfig,
     [DefaultConfig EXCEPT !.similarityEnabled = FALSE],
     [DefaultConfig EXCEPT !.generationEnabled = FALSE],
     [DefaultConfig EXCEPT !.rerankingEnabled = FALSE],
     [DefaultConfig EXCEPT !.verificationEnabled = FALSE],
     [DefaultConfig EXCEPT !.development = TRUE]}

Perms(seq) ==
    {[i \in 1..Len(seq) |-> seq[f[i]]] :
        f \in {g \in [1..Len(seq) -> 1..Len(seq)] :
                 \A i, j \in 1..Len(seq) : i # j => g[i] # g[j]}}

\* vectorStore.similaritySearch(question, k) when the embedding call works:
\* the k nearest documents, in an order the embedding model decides
SimilarityResults(store, k) == {Take(perm, k) : perm \in Perms(store)}

\* replies of a generation model to the legacy prompt
GenResponses ==
    {HttpReject, HttpNotOk, HttpLoading,
     HttpGenerated(<<>>), HttpGenerated(<<" ">>),
     HttpGenerated(<<" ","E","K"," ","i","s"," ","u","p"," ","[","d","o","c",":","1","]">>)}

\* replies of the verifier model inside the pipeline
PipelineVerifierResponses ==
    {HttpGenerated(<<"V","E","R","I","F","I","E","D","\n","R","e","a","s","o","n",":"," ","o","k">>),
     HttpGenerated(<<"u","n","s","u","p","p","o","r","t","e","d">>),
     HttpNotOk, HttpReject}

(***************************************************************************)
(* RagService: construction, module initialisation and query()              *)
(***************************************************************************)

Init ==
    /\ config \in Configs
    /\ vectorStore = NullStore
    /\ similarityAgent = FALSE
    /\ generationAgent = FALSE
    /\ QueryReset
    /\ PackIdle
    /\ VerIdle
    /\ ReqIdle /\ EbIdle /\ FsIdle /\ RrIdle /\ ExtIdle

\* onModuleInit, first await: initializeVectorStore
InitializeVectorStore ==
    /\ ~vectorStore.initialized
    /\ \E corpus \in Corpora : vectorStore' = StoreOf(corpus)
    /\ UNCHANGED <<config, similarityAgent, generationAgent, qVars, packVars, verVars, libVars>>

\* onModuleInit, second await: initializeAgents. query() reads the two agent
\* fields only before its first await, so the step is taken between queries.
InitializeAgents ==
    /\ vectorStore.initialized
    /\ qPc \in {"idle", "done"}
    /\ ~similarityAgent /\ ~generationAgent
    /\ config.similarityEnabled \/ config.generationEnabled
    /\ similarityAgent' = config.similarityEnabled
    /\ generationAgent' = config.generationEnabled
    /\ UNCHANGED <<config, vectorStore, qVars, packVars, verVars, libVars>>

\* what a throw inside query()'s try blocks leads to
Caught ==
    LET c == QueryCatch(qTry) IN
    /\ qPc' = c.pc
    /\ qTry' = c.try
    /\ qResult' = c.result
    /\ legacyRuns' = IF c.pc = "legacyRetrieve" THEN legacyRuns + 1 ELSE legacyRuns
    /\ qDocs' = <<>>
    /\ qBlizzard' = <<>>
    /\ qContext' = NoResult
    /\ UNCHANGED <<qQuestion, qInitialized, tryVars, qAllEmpty, qGenTried>>

\* query(question) up to its first await
QueryStart ==
    /\ qPc = "idle"
    /\ \E q \in Questions : qQuestion' = q
    /\ IF ~vectorStore.initialized
       THEN /\ qPc' = "done"
            /\ qResult' = ThrewError("Vector store not initialized")
            /\ UNCHANGED <<qInitialized, legacyRuns>>
       ELSE /\ qInitialized' = TRUE
            /\ qResult' = NoResult
            /\ IF similarityAgent /\ generationAgent
               THEN qPc' = "agentsRetrieve" /\ UNCHANGED legacyRuns
               ELSE qPc' = "legacyRetrieve" /\ legacyRuns' = legacyRuns + 1
    /\ UNCHANGED <<qTry, qDocs, qBlizzard, qContext, tryVars, qAllEmpty, qGenTried>>
    /\ UNCHANGED <<svcVars, packVars, verVars, libVars>>

\* queryWithAgents step 1: similaritySearch(question, defaultTopK + 2); without
\* reranking the slice to defaultTopK follows at once
AgentsRetrieve ==
    /\ qPc = "agentsRetrieve"
    /\ \/ \E retrieved \in SimilarityResults(vectorStore.docs, DefaultTopK + 2) :
            /\ IF config.rerankingEnabled
               THEN qDocs' = retrieved /\ qPc' = "agentsRerank"
               ELSE qDocs' = Take(retrieved, DefaultTopK) /\ qPc' = "agentsBlizzard"
            /\ UNCHANGED <<qQuestion, qTry, qInitialized, qBlizzard, qContext, tryVars,
                           legacyRuns, qAllEmpty, qGenTried, qResult>>
       \/ Caught
    /\ UNCHANGED <<svcVars, packVars, verVars, libVars>>

\* queryWithAgents step 2: hybridRankDocuments. validateInput throws on a blank
\* query and on an empty document list; a failed ranking keeps the order.
AgentsRerank ==
    /\ qPc = "agentsRerank"
    /\ IF Trim(qQuestion) = <<>> \/ qDocs = <<>>
       THEN Caught
       ELSE /\ \E ranked \in Perms(qDocs) : qDocs' = Take(ranked, DefaultTopK)
            /\ qPc' = "agentsBlizzard"
            /\ UNCHANGED <<qQuestion, qTry, qInitialized, qBlizzard, qContext, tryVars,
                           legacyRuns, qAllEmpty, qGenTried, qResult>>
    /\ UNCHANGED <<svcVars, packVars, verVars, libVars>>

\* queryWithAgents step 3: fetchBlizzardContext
AgentsBlizzard ==
    /\ qPc = "agentsBlizzard"
    /\ \E apiOk \in BOOLEAN : qBlizzard' = fetchBlizzardContext(qQuestion, apiOk)
    /\ qPc' = "agentsGenerate"
    /\ UNCHANGED <<qQuestion, qTry, qInitialized, qDocs, qContext, tryVars,
                   legacyRuns, qAllEmpty, qGenTried, qResult>>
    /\ UNCHANGED <<svcVars, packVars, verVars, libVars>>

\* queryWithAgents step 5: the generation agent, then the return or the fall
\* through to queryLegacy
AgentsGenerate ==
    /\ qPc = "agentsGenerate"
    /\ IF Trim(qQuestion) = <<>>
       THEN Caught            \* validateInput(prompt, 'prompt') throws
       ELSE \E out \in AgentOutcomes :
              /\ IF out.success
                 THEN /\ qPc' = "done"
                      /\ qResult' =
                           ReturnedAnswer(
                             out.text \o (IF config.development
                                          THEN GenerationMetadata(config.verificationEnabled,
                                                                  out.checks)
                                          ELSE <<>>),
                             "agent",
                             IF ~config.verificationEnabled THEN "none"
                             ELSE IF VerifiedBy(out.checks) THEN "verified"
                             ELSE "rejected")
                      /\ qAllEmpty' = (qAllEmpty /\ out.raw = <<>>)
                      /\ qGenTried' = TRUE
                      /\ UNCHANGED legacyRuns
                 ELSE /\ qPc' = "legacyRetrieve"
                      /\ legacyRuns' = legacyRuns + 1
                      /\ qAllEmpty' = FALSE
                      /\ qGenTried' = TRUE
                      /\ UNCHANGED qResult
              /\ UNCHANGED <<qQuestion, qTry, qInitialized, qDocs, qBlizzard, qContext,
                             tryVars>>
    /\ UNCHANGED <<svcVars, packVars, verVars, libVars>>

\* queryLegacy: similaritySearch(question, 8), then the lexical rerank
LegacyRetrieve ==
    /\ qPc = "legacyRetrieve"
    /\ \/ \E retrieved \in SimilarityResults(vectorStore.docs, LegacyFetchK) :
            /\ qDocs' = Take(rerankDocuments(qQuestion, retrieved), LegacyKeepK)
            /\ qPc' = "legacyBlizzard"
            /\ UNCHANGED <<qQuestion, qTry, qInitialized, qBlizzard, qContext, tryVars,
                           legacyRuns, qAllEmpty, qGenTried, qResult>>
       \/ Caught
    /\ UNCHANGED <<svcVars, packVars, verVars, libVars>>

\* queryLegacy: fetchBlizzardContext, then the context is packed and
\* tryModelsWithVerification starts with the first model
LegacyBlizzard ==
    /\ qPc = "legacyBlizzard"
    /\ \E apiOk \in BOOLEAN : qBlizzard' = fetchBlizzardContext(qQuestion, apiOk)
    /\ qContext' = buildContextFromDocs(qDocs, LegacyBudget)
    /\ modelIdx' = 1
    /\ attempt' = 0
    /\ qPc' = "tryModels"
    /\ UNCHANGED <<qQuestion, qTry, qInitialized, qDocs, genCalls, modelLog, legacyRuns,
                   qAllEmpty, qGenTried, qResult>>
    /\ UNCHANGED <<svcVars, packVars, verVars, libVars>>

(***************************************************************************)
(* RagService.tryModelsWithVerification: one iteration of the while loop   *)
(***************************************************************************)

\* an entry of modelLog: what happened (e), for which model index (m), and a
\* number (n): the attempt of "gen", the milliseconds of "sleep", 1/0 for a
\* confident / not confident "verify", 1 for an "empty" result that came from
\* a "model loading" report; "verifierError" precedes the "verify" entry when
\* the verifier's own call threw
Ev(e, m, n) == [e |-> e, m |-> m, n |-> n]

\* modelLog keeps the previous attempt on the current model next to the
\* running one: what is left of it when a new iteration starts
PreviousAttempt ==
    IF attempt = 0 THEN <<>>
    ELSE LET last == CHOOSE i \in 1..Len(modelLog) :
                        /\ modelLog[i].e = "gen"
                        /\ \A j \in (i + 1)..Len(modelLog) : modelLog[j].e # "gen"
         IN  SubSeq(modelLog, last, Len(modelLog))

\* await this.sleep(500 * attempt)
RetryDelay(att) == BaseDelay * att

\* A plausible slip: `attempt <= maxAttempts` as the loop condition.
WhileContinuesOffByOne(att) == att <= MaxAttempts

\* while (attempt < maxAttempts)
WhileContinues(att) == att < MaxAttempts

\* A plausible slip: an error of the generation call ends the whole loop
\* instead of being caught per attempt.
LoopContinueFatalError(att, events, wasEmpty) ==
    /\ genCalls' = [genCalls EXCEPT ![modelIdx] = @ + 1]
    /\ modelLog' = PreviousAttempt \o events
    /\ qAllEmpty' = (qAllEmpty /\ wasEmpty)
    /\ qGenTried' = TRUE
    /\ IF \E i \in 1..Len(events) : events[i].e = "error"
       THEN /\ attempt' = att
            /\ qPc' = "done"
            /\ qResult' = ReturnedAnswer(FallbackText(qContext.context, qBlizzard),
                                         "context", "none")
            /\ UNCHANGED modelIdx
       ELSE IF att < MaxAttempts
       THEN /\ attempt' = att
            /\ UNCHANGED <<modelIdx, qPc, qResult>>
       ELSE IF modelIdx < Len(ModelList)
       THEN /\ modelIdx' = modelIdx + 1
            /\ attempt' = 0
            /\ UNCHANGED <<qPc, qResult>>
       ELSE /\ attempt' = att
            /\ qPc' = "done"
            /\ qResult' = ReturnedAnswer(FallbackText(qContext.context, qBlizzard),
                                         "context", "none")
            /\ UNCHANGED modelIdx

\* The rest of an iteration that did not return: the loop goes on with the
\* same model, or the for loop takes the next model, or the list is used up
\* and queryLegacy returns the retrieved context.
LoopContinue(att, events, wasEmpty) ==
    /\ genCalls' = [genCalls EXCEPT ![modelIdx] = @ + 1]
    /\ modelLog' = PreviousAttempt \o events
    /\ qAllEmpty' = (qAllEmpty /\ wasEmpty)
    /\ qGenTried' = TRUE
    /\ IF WhileContinues(att)
       THEN /\ attempt' = att
            /\ UNCHANGED <<modelIdx, qPc, qResult>>
       ELSE IF modelIdx < Len(ModelList)
       THEN /\ modelIdx' = modelIdx + 1
            /\ attempt' = 0
            /\ UNCHANGED <<qPc, qResult>>
       ELSE /\ attempt' = att
            /\ qPc' = "done"
            /\ qResult' = ReturnedAnswer(FallbackText(qContext.context, qBlizzard),
                                         "context", "none")
            /\ UNCHANGED modelIdx

\* A plausible slip: the confident answer is logged but not returned, and the
\* loop goes on to later attempts and models.
ReturnVerifiedKeepsGoing(att, answer) ==
    LoopContinue(att, <<Ev("gen", modelIdx, att), Ev("verify", modelIdx, 1)>>, FALSE)

\* if (verification?.confident) return generated.trim()
ReturnVerified(att, answer) ==
    /\ genCalls' = [genCalls EXCEPT ![modelIdx] = @ + 1]
    /\ modelLog' = PreviousAttempt
                     \o <<Ev("gen", modelIdx, att), Ev("verify", modelIdx, 1)>>
    /\ qAllEmpty' = FALSE
    /\ qGenTried' = TRUE
    /\ attempt' = att
    /\ qPc' = "done"
    /\ qResult' = ReturnedAnswer(answer, "model", "verified")
    /\ UNCHANGED modelIdx

TryModelsStep ==
    /\ qPc = "tryModels"
    /\ LET att == attempt + 1 IN
       \E resp \in GenResponses :
          LET generated == callHfModel(resp) IN
          IF generated.threw
          THEN LoopContinue(att, <<Ev("gen", modelIdx, att), Ev("error", modelIdx, 0),
                                   Ev("sleep", modelIdx, RetryDelay(att))>>, FALSE)
          ELSE IF Trim(generated.value) = <<>>
          THEN LoopContinue(att, <<Ev("gen", modelIdx, att),
                                   Ev("empty", modelIdx, IF ReportsLoading(resp) THEN 1 ELSE 0)>>,
                            generated.value = <<>>)
          ELSE \E vresp \in PipelineVerifierResponses :
                 IF verifyAnswer(vresp).confident
                 THEN ReturnVerified(att, Trim(generated.value))
                 ELSE LoopContinue(att,
                        <<Ev("gen", modelIdx, att)>>
                          \o (IF callHfModel(vresp).threw
                              THEN <<Ev("verifierError", modelIdx, 0)>> ELSE <<>>)
                          \o <<Ev("verify", modelIdx, 0)>>, FALSE)
    /\ UNCHANGED <<qQuestion, qTry, qInitialized, qDocs, qBlizzard, qContext, legacyRuns>>
    /\ UNCHANGED <<svcVars, packVars, verVars, libVars>>

\* What one iteration of the loop computes from the model's response and the
\* verifier's response: where the loop stands afterwards (model index idx,
\* attempt att of that model) and, if it returned, the answer.
TryOutcome(idx, att0, resp, vresp) ==
    LET att == att0 + 1
        generated == callHfModel(resp)
        goesOn == IF WhileContinues(att)
                  THEN [modelIdx |-> idx, attempt |-> att, pc |-> "tryModels",
                        returned |-> FALSE, answer |-> <<>>]
                  ELSE IF idx < Len(ModelList)
                  THEN [modelIdx |-> idx + 1, attempt |-> 0, pc |-> "tryModels",
                        returned |-> FALSE, answer |-> <<>>]
                  ELSE [modelIdx |-> idx, attempt |-> att, pc |-> "done",
                        returned |-> FALSE, answer |-> <<>>]
    IN  IF generated.threw THEN goesOn
        ELSE IF Trim(generated.value) = <<>> THEN goesOn
        ELSE IF verifyAnswer(vresp).confident
        THEN [modelIdx |-> idx, attempt |-> att, pc |-> "done",
              returned |-> TRUE, answer |-> Trim(generated.value)]
        ELSE goesOn

Next ==
    \/ InitializeVectorStore
    \/ InitializeAgents
    \/ QueryStart
    \/ AgentsRetrieve
    \/ AgentsRerank
    \/ AgentsBlizzard
    \/ AgentsGenerate
    \/ LegacyRetrieve
    \/ LegacyBlizzard
    \/ TryModelsStep

Spec == Init /\ [][Next]_vars

(***************************************************************************)
(* Backoff delays of the other two retry loops                             *)
(***************************************************************************)

RECURSIVE Pow2(_)
Pow2(n) == IF n = 0 THEN 1 ELSE 2 * Pow2(n - 1)

\* BaseHuggingFaceClient.makeRequest: sleep(Math.pow(2, retryCount) * 1000)
\* before the call with retryCount + 1
MakeRequestDelay(retryCount) == Pow2(retryCount) * 1000

\* BaseAgentImpl.executeWithRetry: sleep(Math.pow(2, attempt - 1) * 1000)
\* after the failed attempt
ExecuteWithRetryDelay(att) == Pow2(att - 1) * 1000

\* maxRetries: 3, the default of both BaseHuggingFaceClient and BaseAgentImpl
DefaultMaxRetries == 3

(***************************************************************************)
(* Claims about the context packer (checked under SpecPack)                *)
(***************************************************************************)

PackDone == pkPc = "done"

\* number of documents the packer included
PackIncluded == Cardinality(DOMAIN pkOut.docIndexMap)

RECURSIVE SumTextLen(_, _)
\* total rendered length of the first m documents of docs
SumTextLen(docs, m) ==
    IF m = 0 THEN 0 ELSE SumTextLen(docs, m - 1) + Len(DocText(docs[m], m))

\* C5: context budget invariant. For every document list D and budget B the
\* context text returned by buildContextFromDocs(D, B) has at most B characters.
C5_ContextWithinBudget ==
    PackDone => Len(pkOut.context) <= pkBudget

\* C6: the packer includes whole documents only, in input order, and stops at
\* the first document that would exceed the budget: the included documents
\* are the prefix 1..m of the input, rendered with citation numbers 1..m in
\* order, docIndexMap holds exactly N -> N-th input document for N in 1..m,
\* and m is where the running character count would first exceed the budget.
C6_PackerPrefix ==
    PackDone =>
        LET m == PackIncluded IN
        /\ m <= Len(pkDocs)
        /\ DOMAIN pkOut.docIndexMap = 1..m
        /\ \A N \in 1..m : pkOut.docIndexMap[N] = pkDocs[N]
        /\ pkOut.context = Join([N \in 1..m |-> DocText(pkDocs[N], N)], <<"\n">>)
        /\ SumTextLen(pkDocs, m) <= pkBudget
        /\ m < Len(pkDocs) => SumTextLen(pkDocs, m + 1) > pkBudget

\* C6 witness: a document was included, the next one did not fit, and a later,
\* shorter document would still have fitted but is left out.
C6_Witness ==
    /\ PackDone
    /\ PackIncluded >= 1
    /\ PackIncluded + 2 <= Len(pkDocs)
    /\ SumTextLen(pkDocs, PackIncluded)
         + Len(DocText(pkDocs[PackIncluded + 2], PackIncluded + 2)) <= pkBudget

(***************************************************************************)
(* Claims about the verifier (checked under SpecVerify)                    *)
(***************************************************************************)

VerifyDone == verPc = "done"

\* the text the verifier model replied with, if the call returned one
VerifierReplyText == callHfModel(verResp).value

\* The reply is the VERIFIED verdict: its first line, trimmed, is the word
\* VERIFIED in any letter case.
IsVerifiedVerdict(v) ==
    ToLowerCase(Trim(FirstLine(Trim(v)))) = <<"v","e","r","i","f","i","e","d">>

\* C4: verifyAnswer returns confident:true exactly when the verifier model's
\* reply is the VERIFIED verdict (any letter case); for "NOT VERIFIED ...",
\* for any other reply and for an empty or missing reply it returns
\* confident:false.
C4_ConfidentIffVerifiedVerdict ==
    VerifyDone =>
        (verOut.confident
            <=> (~callHfModel(verResp).threw /\ IsVerifiedVerdict(VerifierReplyText)))

(***************************************************************************)
(* Claims about query() and tryModelsWithVerification (checked under Spec) *)
(***************************************************************************)

QueryDone == qPc = "done"
QueryReturned == QueryDone /\ qResult # NoResult /\ qResult.kind = "returned"

\* a value of JavaScript type string
IsString(v) == v \in Seq(STRING)

\* C1: for every query issued after the vector store is initialized, and for
\* every combination of failures of the retrieval, reranking, Blizzard,
\* generation and verification calls, query() returns an answer string and
\* never lets an exception out.
C1_QueryNeverThrows ==
    (qInitialized /\ qResult # NoResult) =>
        /\ qResult.kind = "returned"
        /\ IsString(qResult.value)

\* C1 witness: the retrieval failed in the try block and again in the legacy
\* run of the catch block, and the caller still got a string.
C1_Witness ==
    /\ QueryReturned
    /\ qInitialized
    /\ qTry = "fallback"
    /\ qResult.origin = "apology"

\* C2: fallback completeness. If every generation attempt of the query
\* returned the empty string, the final answer is non-empty and is the
\* fallback text that contains the packed context verbatim.
C2_FallbackCompleteness ==
    (QueryReturned /\ qGenTried /\ qAllEmpty) =>
        /\ qResult.value # <<>>
        /\ qResult.origin = "context"
        /\ Includes(qResult.value, qContext.context)

\* C3: with verification enabled, a model-generated answer is returned by
\* query() only if the verification step judged it verified.
C3_OnlyVerifiedAnswersReturned ==
    (QueryReturned /\ config.verificationEnabled /\ qResult.origin \in {"agent", "model"})
        => qResult.judged = "verified"

\* positions of the generation calls in modelLog
GenPositions == {i \in 1..Len(modelLog) : modelLog[i].e = "gen"}

\* C7: when the verifier returns confident:false for a model's answer, the
\* pipeline moves on to the next model; the same model is not called for
\* generation again in that query.
C7_RejectedModelNotCalledAgain ==
    \A i \in 1..Len(modelLog) :
        (modelLog[i].e = "verify" /\ modelLog[i].n = 0) =>
            ~\E j \in GenPositions : j > i /\ modelLog[j].m = modelLog[i].m

\* C8: an empty generation result leads to another attempt on the same model
\* until the attempt cap (3) is reached, then the pipeline moves to the next
\* model: no model receives more than 3 generation calls in one query, models
\* are visited in list order, and the list is exhausted only after every
\* model has used up its attempts.
C8_EmptyRetriesUpToCap ==
    /\ \A m \in 1..Len(ModelList) : genCalls[m] <= MaxAttempts
    /\ \A m \in 2..Len(ModelList) : genCalls[m] > 0 => genCalls[m - 1] = MaxAttempts
    /\ (QueryReturned /\ qResult.origin = "context")
          => \A m \in 1..Len(ModelList) : genCalls[m] = MaxAttempts
    /\ (qPc = "tryModels" /\ modelLog # <<>> /\ modelLog[Len(modelLog)].e = "empty") =>
          LET last == modelLog[Len(modelLog)]
              calls == genCalls[last.m]
          IN  IF calls < MaxAttempts
              THEN modelIdx = last.m /\ attempt = calls
              ELSE modelIdx = last.m + 1 /\ attempt = 0

\* C8 witness: a model returned an empty result on its attempts, the later
\* models were tried too, and the list was exhausted.
C8_Witness ==
    /\ QueryReturned
    /\ qResult.origin = "context"
    /\ qAllEmpty
    /\ \E i \in 1..Len(modelLog) : modelLog[i].e = "empty"
    /\ \A m \in 1..Len(ModelList) : genCalls[m] = MaxAttempts

\* C9: every repeated generation attempt on the same model is preceded by a
\* backoff delay: between two consecutive generation calls to the same model
\* a sleep occurs.
C9_BackoffBeforeEveryRetry ==
    \A i, j \in GenPositions :
        (i < j /\ modelLog[i].m = modelLog[j].m) =>
            \E k \in (i + 1)..(j - 1) : modelLog[k].e = "sleep"

\* the attempt number of the generation call that precedes log position k
AttemptBefore(k) ==
    modelLog[CHOOSE i \in GenPositions : i < k /\ \A j \in GenPositions : j < k => j <= i].n

\* C10: retry delays are exponential. In each retry loop the n-th delay
\* equals base * 2^(n-1), each delay twice the one before: 500 ms base in
\* tryModelsWithVerification, 1000 ms base in makeRequest and executeWithRetry.
C10_ExponentialDelays ==
    /\ \A k \in 1..Len(modelLog) :
          modelLog[k].e = "sleep" => modelLog[k].n = BaseDelay * Pow2(AttemptBefore(k) - 1)
    /\ \A n \in 1..DefaultMaxRetries :
          /\ MakeRequestDelay(n - 1) = 1000 * Pow2(n - 1)
          /\ ExecuteWithRetryDelay(n) = 1000 * Pow2(n - 1)

ModelAnswered == QueryReturned /\ qResult.origin = "model"

\* C11: the first confident result wins by fixed model priority. No verified
\* answer is ever passed over (while the loop runs, no model has produced a
\* verified answer), the returned answer is the one the current model just
\* produced and the verifier accepted, no model after it has been called, and
\* the outcome of every iteration is a function of the model's and the
\* verifier's responses alone (same responses, same answer).
C11_FirstConfidentWins ==
    /\ [](qPc = "tryModels" =>
            \A i \in 1..Len(modelLog) : ~(modelLog[i].e = "verify" /\ modelLog[i].n = 1))
    /\ [](ModelAnswered =>
            /\ Len(modelLog) >= 2
            /\ modelLog[Len(modelLog) - 1] = Ev("gen", modelIdx, attempt)
            /\ modelLog[Len(modelLog)] = Ev("verify", modelIdx, 1)
            /\ \A m \in 1..Len(ModelList) : m > modelIdx => genCalls[m] = 0
            /\ \A m \in 1..Len(ModelList) : m < modelIdx => genCalls[m] = MaxAttempts)
    /\ [][qPc = "tryModels" =>
            \E resp \in GenResponses, vresp \in PipelineVerifierResponses :
               LET o == TryOutcome(modelIdx, attempt, resp, vresp) IN
               /\ modelIdx' = o.modelIdx
               /\ attempt' = o.attempt
               /\ qPc' = o.pc
               /\ (qPc' = "done" /\ qResult'.origin = "model") = o.returned
               /\ o.returned => qResult'.value = o.answer]_vars

\* C11 witness: the first model never got a verified answer, the second did
\* and its answer was returned without the third being called.
C11_Witness ==
    /\ ModelAnswered
    /\ modelIdx = 2
    /\ genCalls[1] = MaxAttempts
    /\ genCalls[3] = 0

(***************************************************************************)
(* Further claims about the verifier (checked under SpecVerify)            *)
(***************************************************************************)

\* the phrases between pairs of double quotes in s, left to right
RECURSIVE QuotedPhrases(_, _, _, _)
QuotedPhrases(s, inside, cur, acc) ==
    IF s = <<>> THEN acc
    ELSE IF Head(s) = "\""
    THEN IF inside THEN QuotedPhrases(Tail(s), FALSE, <<>>, Append(acc, cur))
         ELSE QuotedPhrases(Tail(s), TRUE, <<>>, acc)
    ELSE QuotedPhrases(Tail(s), inside, IF inside THEN Append(cur, Head(s)) ELSE cur, acc)

HasUnsupportedQuote(answer, context) ==
    LET phrases == QuotedPhrases(answer, FALSE, <<>>, <<>>)
    IN  \E i \in 1..Len(phrases) : ~Includes(context, phrases[i])

\* C12: verifier local pre-check. An answer containing a quoted phrase that
\* appears nowhere in the context yields confident:false with zero remote
\* calls to the verifier model.
C12_UnsupportedQuoteRejectedLocally ==
    (VerifyDone /\ HasUnsupportedQuote(verAnswer, verContext)) =>
        /\ verOut.confident = FALSE
        /\ verCalls = 0

(***************************************************************************)
(* Further claims about tryModelsWithVerification (checked under Spec)     *)
(***************************************************************************)

VerifierErrorText == <<"v","e","r","i","f","i","e","r"," ","e","r","r","o","r">>

\* a reply with which the verifier rejects an answer
RejectingReply == HttpGenerated(<<"u","n","s","u","p","p","o","r","t","e","d">>)

\* verifyAnswer's result for a failed call, and the loop's outcome for it,
\* compared with a rejection
VerifierErrorIsRejection ==
    /\ verifyAnswer(HttpReject) = [confident |-> FALSE, reason |-> VerifierErrorText]
    /\ \A idx \in 1..Len(ModelList), att \in 0..(MaxAttempts - 1), resp \in GenResponses :
          TryOutcome(idx, att, resp, HttpReject) = TryOutcome(idx, att, resp, RejectingReply)

\* C13: a failure of the verifier call itself (transport error raised inside
\* verifyAnswer) is not escalated: verifyAnswer returns confident:false with
\* reason "verifier error", no exception leaves it, and the pipeline
\* continues exactly as for a rejected answer.
C13_VerifierErrorNotEscalated ==
    /\ VerifierErrorIsRejection
    /\ \A i \in 1..Len(modelLog) :
          modelLog[i].e = "verifierError" =>
             /\ i < Len(modelLog)
             /\ modelLog[i + 1] = Ev("verify", modelLog[i].m, 0)
             /\ ~\E j \in (i + 1)..Len(modelLog) : modelLog[j].e \in {"error", "sleep"}
                    /\ ~\E k \in GenPositions : i < k /\ k < j
    /\ (\E i \in 1..Len(modelLog) : modelLog[i].e = "verifierError")
          => (qResult = NoResult \/ qResult.kind = "returned")

\* C13 witness: the verifier's call failed for one attempt and the query
\* went on to a later generation call and finished with an answer.
C13_Witness ==
    /\ QueryReturned
    /\ \E i \in 1..Len(modelLog) :
          /\ modelLog[i].e = "verifierError"
          /\ \E j \in GenPositions : j > i

\* the last generation call in modelLog, if any
LastGen == modelLog[CHOOSE i \in GenPositions : \A j \in GenPositions : j <= i]

\* the last generation call in modelLog ended with an error
LastGenFailed ==
    /\ GenPositions # {}
    /\ \E i \in 1..Len(modelLog) :
          /\ modelLog[i].e = "error"
          /\ \A j \in GenPositions : j < i

\* C14: a generation call that fails with an error is non-fatal to the
\* query. After the error the same model is retried while it has attempts
\* left; once its retry budget is used up the pipeline is at the next model,
\* and only after the last model's budget is used up does the query end,
\* with an answer (the fallback context), never with an exception.
C14_GenerationErrorNonFatal ==
    LastGenFailed =>
        /\ (qResult = NoResult \/ qResult.kind = "returned")
        /\ IF LastGen.n < MaxAttempts
           THEN qPc = "tryModels" /\ modelIdx = LastGen.m /\ attempt = LastGen.n
           ELSE IF LastGen.m < Len(ModelList)
           THEN qPc = "tryModels" /\ modelIdx = LastGen.m + 1 /\ attempt = 0
           ELSE /\ QueryReturned
                /\ qResult.origin = "context"
                /\ \A m \in 1..Len(ModelList) : genCalls[m] = MaxAttempts

\* C14 witness: the last attempts of the first model ended with an error and
\* the pipeline stands at the second model.
C14_Witness ==
    /\ qPc = "tryModels"
    /\ modelIdx = 2
    /\ attempt = 0
    /\ LastGenFailed
    /\ LastGen = Ev("gen", 1, MaxAttempts)
    /\ Cardinality({i \in 1..Len(modelLog) : modelLog[i].e = "error"}) = 2

\* callHfModel's result for a loading report, and the loop's outcome for it,
\* compared with an empty generated text
LoadingReturnsEmpty ==
    /\ callHfModel(HttpLoading) = Returned(<<>>)
    /\ \A idx \in 1..Len(ModelList), att \in 0..(MaxAttempts - 1),
          vresp \in PipelineVerifierResponses :
          TryOutcome(idx, att, HttpLoading, vresp)
             = TryOutcome(idx, att, HttpGenerated(<<>>), vresp)

\* C15: when the backend reports the transient "model loading" condition,
\* callHfModel returns the empty string and raises no error, and
\* tryModelsWithVerification handles it as an empty result: no verifier call
\* and no catch block for that attempt, and the loop continues as after any
\* other empty result.
C15_LoadingIsEmptyResult ==
    /\ LoadingReturnsEmpty
    /\ \A i \in 1..Len(modelLog) :
          (modelLog[i].e = "empty" /\ modelLog[i].n = 1) =>
             /\ i > 1
             /\ modelLog[i - 1].e = "gen"
             /\ (i < Len(modelLog) => modelLog[i + 1].e = "gen")
    /\ (modelLog # <<>> /\ modelLog[Len(modelLog)] = Ev("empty", modelLog[Len(modelLog)].m, 1)) =>
          IF LastGen.n < MaxAttempts
          THEN qPc = "tryModels" /\ modelIdx = LastGen.m /\ attempt = LastGen.n
          ELSE IF LastGen.m < Len(ModelList)
          THEN qPc = "tryModels" /\ modelIdx = LastGen.m + 1 /\ attempt = 0
          ELSE QueryReturned /\ qResult.origin = "context"

\* C15 witness: a model reported "loading" on one attempt and was called
\* again for the next attempt.
C15_Witness ==
    \E i \in 1..Len(modelLog) :
        /\ modelLog[i] = Ev("empty", 1, 1)
        /\ i < Len(modelLog)
        /\ modelLog[i + 1] = Ev("gen", 1, modelLog[i - 1].n + 1)

(***************************************************************************)
(* BaseHuggingFaceClient.makeRequest and HuggingFaceEmbeddingClient.embed  *)
(***************************************************************************)

\* what fetch can do within one attempt: reject (transport error), be
\* aborted by the attempt's timeout, or deliver a response
FetchRejected == [kind |-> "reject"]
FetchTimedOut == [kind |-> "abort"]
EmbResponse(ok, shape, data) == [kind |-> "http", ok |-> ok, shape |-> shape, data |-> data]

\* bodies: [[1, 2]], [3, 4], [], {} (not an array), {error: "... loading"},
\* {error: "..."}, not JSON; and a non-ok status
EmbResponses ==
    {EmbResponse(TRUE, "2d", <<<<1, 2>>>>),
     EmbResponse(TRUE, "1d", <<3, 4>>),
     EmbResponse(TRUE, "1d", <<>>),
     EmbResponse(TRUE, "object", <<>>),
     EmbResponse(TRUE, "loading", <<>>),
     EmbResponse(TRUE, "error", <<>>),
     EmbResponse(TRUE, "badjson", <<>>),
     EmbResponse(FALSE, "text", <<>>)}

FetchOutcomes == {FetchRejected, FetchTimedOut} \cup EmbResponses

EmbedOk(vec) == [kind |-> "result", success |-> TRUE, embeddings |-> vec,
                 dimensions |-> Len(vec), error |-> "", attempts |-> 0]
EmbedFail(error, attempts) ==
    [kind |-> "result", success |-> FALSE, embeddings |-> <<>>, dimensions |-> 0,
     error |-> error, attempts |-> attempts]
EmbedThrew(error) ==
    [kind |-> "threw", success |-> FALSE, embeddings |-> <<>>, dimensions |-> 0,
     error |-> error, attempts |-> 0]

\* processResponse
processResponse(resp) ==
    IF ~resp.ok THEN [success |-> FALSE, error |-> "HTTP status"]
    ELSE IF resp.shape = "badjson" THEN [success |-> FALSE, error |-> "Failed to parse response"]
    ELSE IF resp.shape = "loading" THEN [success |-> FALSE, error |-> "still loading"]
    ELSE IF resp.shape = "error" THEN [success |-> FALSE, error |-> "data.error"]
    ELSE [success |-> TRUE, error |-> ""]

\* embed, from the response makeRequest returned to the end of the try block
EmbedFromResponse(resp) ==
    LET result == processResponse(resp) IN
    IF ~result.success THEN EmbedFail(result.error, 0)
    ELSE LET embeddings == IF resp.shape = "2d" /\ resp.data # <<>> THEN resp.data[1]
                           ELSE IF resp.shape = "1d" THEN resp.data
                           ELSE <<>>
         IN  IF Len(embeddings) = 0 THEN EmbedFail("Unexpected response format", 0)
             ELSE EmbedOk(embeddings)

\* validateInput: !text
InvalidText(text) == text = <<>>

\* this.config.maxRetries || 3
RetryCap(maxRetries) == IF maxRetries = 0 THEN DefaultMaxRetries ELSE maxRetries

\* retryCount < (this.config.maxRetries || 3)
MayRetry(retryCount, maxRetries) == retryCount < RetryCap(maxRetries)

MaxRetriesCfg == 3

EmbedTexts == {<<>>, <<"o","r","c">>, <<"E","K"," ","i","s"," ","u","p">>}

InitEmbed ==
    /\ clMaxRetries \in 0..MaxRetriesCfg
    /\ clText \in EmbedTexts
    /\ clRetry = 0
    /\ clFetches = 0
    /\ clResult = NoResult
    /\ clPc = "ready"
    /\ PackIdle /\ VerIdle /\ ServiceIdle /\ EbIdle /\ FsIdle /\ RrIdle /\ ExtIdle

\* embed: validateInput, then the first makeRequest
EmbedStart ==
    /\ clPc = "ready"
    /\ IF InvalidText(clText)
       THEN clPc' = "done" /\ clResult' = EmbedThrew("Input text must be a non-empty string")
       ELSE clPc' = "fetch" /\ UNCHANGED clResult
    /\ UNCHANGED <<clMaxRetries, clText, clRetry, clFetches>>
    /\ UNCHANGED <<packVars, verVars, svcVars, qVars, ebVars, fsVars, rrVars, extVars>>

\* makeRequest(url, options, retryCount): one fetch under the attempt's own
\* timeout; a response ends embed, a failure sleeps and recurses or throws
\* into embed's catch block
MakeRequestAttempt ==
    /\ clPc = "fetch"
    /\ clFetches' = clFetches + 1
    /\ \E outcome \in FetchOutcomes :
          IF outcome.kind = "http"
          THEN /\ clResult' = EmbedFromResponse(outcome)
               /\ clPc' = "done"
               /\ UNCHANGED clRetry
          ELSE IF MayRetry(clRetry, clMaxRetries)
          THEN /\ clRetry' = clRetry + 1
               /\ UNCHANGED <<clResult, clPc>>
          ELSE /\ clResult' = EmbedFail("Request failed after attempts", clRetry + 1)
               /\ clPc' = "done"
               /\ UNCHANGED clRetry
    /\ UNCHANGED <<clMaxRetries, clText>>
    /\ UNCHANGED <<packVars, verVars, svcVars, qVars, ebVars, fsVars, rrVars, extVars>>

NextEmbed == EmbedStart \/ MakeRequestAttempt

SpecEmbed == InitEmbed /\ [][NextEmbed]_vars

EmbedDone == clPc = "done"

\* C16: makeRequest applies the per-call timeout to each attempt and, on
\* timeout or transport error, retries up to the configured attempt cap and
\* then fails with an error: with maxRetries = n it performs at most n + 1
\* fetch attempts, for every n >= 0.
C16_AtMostCapPlusOneFetches ==
    /\ clPc # "off" => clFetches <= clMaxRetries + 1
    /\ (EmbedDone /\ clResult.attempts > 0) => clResult.attempts = clMaxRetries + 1

\* C17: embed does not retry internally. It issues exactly one remote request
\* per call (none for a text it refuses), and it reports failure when the
\* remote call errors, when the payload is malformed, or when the text is
\* empty.
C17_EmbedSingleRequest ==
    /\ clPc # "off" => clFetches <= 1
    /\ EmbedDone =>
          /\ clFetches = (IF InvalidText(clText) THEN 0 ELSE 1)
          /\ InvalidText(clText) => ~clResult.success
          /\ clResult.success => (clResult.kind = "result" /\ Len(clResult.embeddings) > 0)

(***************************************************************************)
(* HuggingFaceEmbeddingClient.embedBatch                                   *)
(***************************************************************************)

\* what an embed call of the batch can resolve to
EmbedResults ==
    {EmbedFromResponse(r) : r \in EmbResponses}
        \cup {EmbedFail("Request failed after attempts", RetryCap(DefaultMaxRetries) + 1)}

\* validateInputs: not a non-empty array, or some text refused by validateInput
InvalidTexts(texts) == texts = <<>> \/ \E i \in 1..Len(texts) : InvalidText(texts[i])

BatchOk(data) == [kind |-> "result", success |-> TRUE, data |-> data, failed |-> 0]
BatchFail(failed) == [kind |-> "result", success |-> FALSE, data |-> <<>>, failed |-> failed]
BatchThrew == [kind |-> "threw", success |-> FALSE, data |-> <<>>, failed |-> 0]

EmbeddingOf(result) == [embeddings |-> result.embeddings, dimensions |-> result.dimensions]

\* A plausible slip: the failed elements are dropped and the rest returned.
embedBatchResultPartial(results) ==
    LET ok == SelectSeq(results, LAMBDA r : r.success)
    IN  BatchOk([i \in 1..Len(ok) |-> EmbeddingOf(ok[i])])

\* embedBatch after Promise.all: failedResults, then results.map(r => r.data)
embedBatchResult(results) ==
    LET failedResults == SelectSeq(results, LAMBDA r : ~r.success)
    IN  IF Len(failedResults) > 0 THEN BatchFail(Len(failedResults))
        ELSE BatchOk([i \in 1..Len(results) |-> EmbeddingOf(results[i])])

MaxBatch == 2

InitBatch ==
    /\ ebTexts \in SeqsUpTo(EmbedTexts, MaxBatch)
    /\ ebResults = <<>>
    /\ ebOut = NoResult
    /\ ebPc = "ready"
    /\ PackIdle /\ VerIdle /\ ServiceIdle /\ ReqIdle /\ FsIdle /\ RrIdle /\ ExtIdle

\* embedBatch: validateInputs, then texts.map(text => this.embed(text))
BatchStart ==
    /\ ebPc = "ready"
    /\ IF InvalidTexts(ebTexts)
       THEN ebPc' = "done" /\ ebOut' = BatchThrew /\ UNCHANGED ebResults
       ELSE /\ ebPc' = "waiting"
            /\ ebResults' = [i \in 1..Len(ebTexts) |-> NoResult]
            /\ UNCHANGED ebOut
    /\ UNCHANGED ebTexts
    /\ UNCHANGED <<packVars, verVars, svcVars, qVars, reqVars, fsVars, rrVars, extVars>>

\* one of the concurrent embed calls resolves
BatchElementSettles ==
    /\ ebPc = "waiting"
    /\ \E i \in 1..Len(ebResults), r \in EmbedResults :
          /\ ebResults[i] = NoResult
          /\ ebResults' = [ebResults EXCEPT ![i] = r]
    /\ UNCHANGED <<ebTexts, ebOut, ebPc>>
    /\ UNCHANGED <<packVars, verVars, svcVars, qVars, reqVars, fsVars, rrVars, extVars>>

\* await Promise.all(embedPromises) resumes when every call has resolved
BatchFinish ==
    /\ ebPc = "waiting"
    /\ \A i \in 1..Len(ebResults) : ebResults[i] # NoResult
    /\ ebOut' = embedBatchResult(ebResults)
    /\ ebPc' = "done"
    /\ UNCHANGED <<ebTexts, ebResults>>
    /\ UNCHANGED <<packVars, verVars, svcVars, qVars, reqVars, fsVars, rrVars, extVars>>

NextBatch == BatchStart \/ BatchElementSettles \/ BatchFinish

SpecBatch == InitBatch /\ [][NextBatch]_vars

BatchDone == ebPc = "done"

\* C18: embedBatch reports aggregate failure whenever at least one element's
\* embedding fails (or is refused); it returns success only when every
\* element succeeded, and then returns exactly one embedding per input text,
\* in input order.
C18_BatchAllOrNothing ==
    BatchDone =>
        /\ (InvalidTexts(ebTexts) \/ \E i \in 1..Len(ebResults) : ~ebResults[i].success)
              => ~ebOut.success
        /\ ebOut.success =>
              /\ ebOut.kind = "result"
              /\ Len(ebResults) = Len(ebTexts)
              /\ \A i \in 1..Len(ebResults) : ebResults[i].success
              /\ Len(ebOut.data) = Len(ebTexts)
              /\ \A i \in 1..Len(ebTexts) : ebOut.data[i] = EmbeddingOf(ebResults[i])

\* C18 witness: a batch of two texts succeeded, with two different embeddings
\* at their texts' positions.
C18_Witness ==
    /\ BatchDone
    /\ Len(ebTexts) = 2
    /\ ebOut.success
    /\ ebOut.data[1] # ebOut.data[2]

(***************************************************************************)
(* HuggingFaceEmbeddingClient.cosineSimilarity and findMostSimilar         *)
(***************************************************************************)

RECURSIVE Dot(_, _)
Dot(a, b) == IF a = <<>> THEN 0 ELSE Head(a) * Head(b) + Dot(Tail(a), Tail(b))

\* cosineSimilarity(a, b) = dotProduct / (magnitudeA * magnitudeB), kept exact
\* as sgn * sqrt(num / den) with num = dotProduct^2 and
\* den = magnitudeA^2 * magnitudeB^2; 0 when a magnitude is 0
cosineSimilarity(a, b) ==
    LET dotProduct == Dot(a, b)
        magA2 == Dot(a, a)
        magB2 == Dot(b, b)
    IN  IF magA2 = 0 \/ magB2 = 0 \/ dotProduct = 0 THEN [sgn |-> 0, num |-> 0, den |-> 1]
        ELSE [sgn |-> IF dotProduct > 0 THEN 1 ELSE -1,
              num |-> dotProduct * dotProduct,
              den |-> magA2 * magB2]

\* x > y for two similarities
SimGreater(x, y) ==
    IF x.sgn # y.sgn THEN x.sgn > y.sgn
    ELSE IF x.sgn = 0 THEN FALSE
    ELSE IF x.sgn = 1 THEN x.num * y.den > y.num * x.den
    ELSE x.num * y.den < y.num * x.den

\* A plausible slip: a sort that is not stable, an item moving in front of
\* the items of equal similarity already placed.
RECURSIVE InsertBySimilarityUnstable(_, _)
InsertBySimilarityUnstable(sorted, x) ==
    IF sorted = <<>> THEN <<x>>
    ELSE IF ~SimGreater(Head(sorted).similarity, x.similarity) THEN <<x>> \o sorted
    ELSE <<Head(sorted)>> \o InsertBySimilarityUnstable(Tail(sorted), x)

\* .sort((a, b) => b.similarity - a.similarity): stable, descending
RECURSIVE InsertBySimilarity(_, _)
InsertBySimilarity(sorted, x) ==
    IF sorted = <<>> THEN <<x>>
    ELSE IF SimGreater(x.similarity, Head(sorted).similarity) THEN <<x>> \o sorted
    ELSE <<Head(sorted)>> \o InsertBySimilarity(Tail(sorted), x)

RECURSIVE SortBySimilarity(_)
SortBySimilarity(items) ==
    IF items = <<>> THEN <<>>
    ELSE InsertBySimilarity(SortBySimilarity(SubSeq(items, 1, Len(items) - 1)),
                            items[Len(items)])

findMostSimilar(queryEmbedding, candidateEmbeddings, topK) ==
    LET similarities ==
            [i \in 1..Len(candidateEmbeddings) |->
                [similarity |-> cosineSimilarity(queryEmbedding,
                                                 candidateEmbeddings[i].embedding),
                 metadata |-> candidateEmbeddings[i].metadata]]
    IN  Take(SortBySimilarity(similarities), topK)

\* embeddings of dimension 2: parallel ones, opposite ones, the zero vector
VectorPool == {<<1, 0>>, <<2, 0>>, <<0, 1>>, <<1, 1>>, <<-1, 0>>, <<0, 0>>}
QueryVectors == {<<1, 0>>, <<1, 2>>}

MaxCands == 3
MaxK == 3

\* candidates carry their insertion position as metadata
InitSimilar ==
    /\ fsQuery \in QueryVectors
    /\ \E vecs \in SeqsUpTo(VectorPool, MaxCands) :
          fsCands = [i \in 1..Len(vecs) |-> [embedding |-> vecs[i], metadata |-> i]]
    /\ fsK \in 0..MaxK
    /\ fsOut = NoResult
    /\ fsPc = "ready"
    /\ PackIdle /\ VerIdle /\ ServiceIdle /\ ReqIdle /\ EbIdle /\ RrIdle /\ ExtIdle

FindMostSimilar ==
    /\ fsPc = "ready"
    /\ fsOut' = [items |-> findMostSimilar(fsQuery, fsCands, fsK)]
    /\ fsPc' = "done"
    /\ UNCHANGED <<fsQuery, fsCands, fsK>>
    /\ UNCHANGED <<packVars, verVars, svcVars, qVars, reqVars, ebVars, rrVars, extVars>>

NextSimilar == FindMostSimilar

SpecSimilar == InitSimilar /\ [][NextSimilar]_vars

SimilarDone == fsPc = "done"
SimOf(i) == cosineSimilarity(fsQuery, fsCands[i].embedding)
SimEqual(x, y) == ~SimGreater(x, y) /\ ~SimGreater(y, x)

\* C19: nearest-neighbour search returns min(k, n) results in non-increasing
\* similarity order, ties keep original insertion order, every returned item
\* has similarity >= every item not returned, and an empty candidate set
\* yields an empty result without error.
C19_TopKBySimilarity ==
    SimilarDone =>
        LET out == fsOut.items
            n == Len(fsCands)
            returned == {out[i].metadata : i \in 1..Len(out)}
        IN  /\ Len(out) = (IF fsK < n THEN fsK ELSE n)
            /\ returned \subseteq 1..n
            /\ Cardinality(returned) = Len(out)
            /\ \A i \in 1..Len(out) : out[i].similarity = SimOf(out[i].metadata)
            /\ \A i, j \in 1..Len(out) :
                  i < j =>
                     /\ ~SimGreater(out[j].similarity, out[i].similarity)
                     /\ SimEqual(out[i].similarity, out[j].similarity)
                           => out[i].metadata < out[j].metadata
            /\ \A c \in (1..n) \ returned : \A i \in 1..Len(out) :
                  /\ ~SimGreater(SimOf(c), out[i].similarity)
                  /\ SimEqual(SimOf(c), out[i].similarity) => out[i].metadata < c
            /\ n = 0 => out = <<>>

\* C19 witness: three candidates, two of them tied with the best similarity
\* and the worst one inserted first; the two tied ones are returned in
\* insertion order.
C19_Witness ==
    /\ SimilarDone
    /\ Len(fsCands) = 3
    /\ fsK = 2
    /\ Len(fsOut.items) = 2
    /\ fsOut.items[1].metadata = 2
    /\ fsOut.items[2].metadata = 3
    /\ SimEqual(fsOut.items[1].similarity, fsOut.items[2].similarity)

(***************************************************************************)
(* Specification of the reranker alone: every question and document list   *)
(***************************************************************************)

\* page contents with 0, 1, 2 and 3 tokens
RerankContents ==
    {<<>>,
     <<"o","r","c">>,
     <<"e","l","f">>,
     <<"O","r","c"," ","E","K">>,
     <<"e","l","f"," ","o","r","c">>,
     <<"u","p"," ","u","p"," ","o","r","c">>}

\* a question sharing tokens with the documents and one sharing none
RerankQuestions == {<<"o","r","c"," ","E","K","?">>, <<"t","r","o","l","l">>}

MaxRerankDocs == 3

\* documents carry their input position as metadata.source
InitRerank ==
    /\ rrQuestion \in RerankQuestions
    /\ \E contents \in SeqsUpTo(RerankContents, MaxRerankDocs) :
          rrDocs = [i \in 1..Len(contents) |->
                       [pageContent |-> contents[i], topic |-> <<>>, source |-> NumStr(i)]]
    /\ rrOut = NoResult
    /\ rrPc = "ready"
    /\ PackIdle /\ VerIdle /\ ServiceIdle /\ ReqIdle /\ EbIdle /\ FsIdle /\ ExtIdle

RerankDocuments ==
    /\ rrPc = "ready"
    /\ rrOut' = [docs |-> rerankDocuments(rrQuestion, rrDocs)]
    /\ rrPc' = "done"
    /\ UNCHANGED <<rrQuestion, rrDocs>>
    /\ UNCHANGED <<packVars, verVars, svcVars, qVars, reqVars, ebVars, fsVars, extVars>>

NextRerank == RerankDocuments

SpecRerank == InitRerank /\ [][NextRerank]_vars

RerankDone == rrPc = "done"

\* of input document i: its tokens, its count of overlapping query tokens,
\* and its position in the reranked list
DocTokens(i) == Tokenize(ToLowerCase(rrDocs[i].pageContent))
DocOverlap(i) == Overlap(Tokenize(ToLowerCase(rrQuestion)), DocTokens(i))
RankOf(i) == CHOOSE p \in 1..Len(rrOut.docs) : rrOut.docs[p] = rrDocs[i]
DocScore(i) == ScoreDoc(Tokenize(ToLowerCase(rrQuestion)), rrDocs[i])

\* C20 as stated: of two candidates with the same count of overlapping query
\* tokens, the one with fewer tokens is ranked before the one with more
\* tokens.
C20_ShorterRankedFirst ==
    RerankDone =>
        \A i, j \in 1..Len(rrDocs) :
            (DocOverlap(i) = DocOverlap(j) /\ Len(DocTokens(i)) < Len(DocTokens(j)))
                => RankOf(i) < RankOf(j)

\* C20 amended: of two candidates with the same count of overlapping query
\* tokens, the longer never outscores the shorter; when that count is
\* positive the shorter is ranked before the longer, and when it is zero
\* both score 0 and keep their input order.
C20_ShorterNeverOutscored ==
    RerankDone =>
        /\ Len(rrOut.docs) = Len(rrDocs)
        /\ \A i, j \in 1..Len(rrDocs) :
              (DocOverlap(i) = DocOverlap(j) /\ Len(DocTokens(i)) < Len(DocTokens(j))) =>
                 /\ ~ScoreGreater(DocScore(j), DocScore(i))
                 /\ DocOverlap(i) > 0 => RankOf(i) < RankOf(j)
                 /\ DocOverlap(i) = 0 => ((RankOf(i) < RankOf(j)) <=> (i < j))

\* C20 witness: a longer document precedes a shorter one with the same
\* positive overlap count in the input, and the shorter one is ranked first.
C20_Witness ==
    /\ RerankDone
    /\ \E i, j \in 1..Len(rrDocs) :
          /\ j < i
          /\ DocOverlap(i) = DocOverlap(j)
          /\ DocOverlap(i) > 0
          /\ Len(DocTokens(i)) < Len(DocTokens(j))
          /\ RankOf(i) < RankOf(j)

ScoreEqual(x, y) == ~ScoreGreater(x, y) /\ ~ScoreGreater(y, x)

\* C21: reranking is a stable permutation. The output of rerankDocuments
\* holds every input candidate exactly once (none dropped, none duplicated),
\* candidates with equal score keep their input order, and a candidate with
\* zero tokens scores 0 and is kept.
C21_StablePermutation ==
    RerankDone =>
        /\ Len(rrOut.docs) = Len(rrDocs)
        /\ \A i \in 1..Len(rrDocs) :
              Cardinality({p \in 1..Len(rrOut.docs) : rrOut.docs[p] = rrDocs[i]}) = 1
        /\ \A i, j \in 1..Len(rrDocs) :
              (i < j /\ ScoreEqual(DocScore(i), DocScore(j))) => RankOf(i) < RankOf(j)
        /\ \A i \in 1..Len(rrDocs) :
              DocTokens(i) = <<>> => DocScore(i).num = 0

\* C21 witness: a candidate without tokens comes first in the input, two
\* candidates of equal positive score follow; all three are in the output,
\* the two equal ones in input order and in front of the empty one.
C21_Witness ==
    /\ RerankDone
    /\ Len(rrDocs) = 3
    /\ DocTokens(1) = <<>>
    /\ DocScore(2).num > 0
    /\ rrDocs[2].pageContent # rrDocs[3].pageContent
    /\ ScoreEqual(DocScore(2), DocScore(3))
    /\ RankOf(2) = 1 /\ RankOf(3) = 2 /\ RankOf(1) = 3

(***************************************************************************)
(* Specification of the in-memory index of RagService: the startup load    *)
(* (onModuleInit), addDocument calls and the retrievals of queries, which  *)
(* interleave at their awaits.                                             *)
(***************************************************************************)
MaxAdds == 1
MaxRetrievals == 1

AddCalls == 1..MaxAdds
Retrievals == 1..MaxRetrievals

KnowledgeBase == <<"k","n","o","w","l","e","d","g","e","-","b","a","s","e">>
General == <<"g","e","n","e","r","a","l">>
UserAdded == <<"u","s","e","r","-","a","d","d","e","d">>

\* loadInitialDocuments: the Document pushed for a CSV row with content
LoadedDocument(content, topic) ==
    [pageContent |-> content,
     topic |-> IF topic = <<>> THEN General ELSE topic,
     source |-> KnowledgeBase]

\* what loadInitialDocuments can resolve with (no file: the empty list)
LoadedCorpora ==
    {<<>>,
     <<LoadedDocument(<<"o","r","c">>, <<>>)>>,
     <<LoadedDocument(<<"o","r","c">>, <<>>),
       LoadedDocument(<<"E","K">>, <<"g","e","o">>)>>}

\* arguments callers hand to addDocument; <<>> stands for an absent key
AddContents == {<<"e","l","f">>, <<"o","r","c">>}
AddMetadata ==
    {[topic |-> <<>>, source |-> <<>>],
     [topic |-> <<"l","o","r","e">>, source |-> <<"w","i","k","i">>]}

\* a variant of addDocument's Document in which the caller's source survives
BuildDocumentKeepsSource(content, metadata) ==
    [pageContent |-> content, topic |-> metadata.topic,
     source |-> IF metadata.source = <<>> THEN UserAdded ELSE metadata.source]

\* addDocument: new Document({pageContent, metadata: {...metadata, source: "user-added"}})
BuildDocument(content, metadata) ==
    [pageContent |-> content, topic |-> metadata.topic, source |-> UserAdded]

\* vectorStore.addDocuments([doc]) once the embedding is there: the entry is
\* appended to the store's list in one synchronous step
AddVectors(store, doc) == StoreOf(Append(store.docs, doc))

\* a variant of the store that lists the text of a document while its vector
\* is still being computed
StoreWhileEmbeddingListsText(store, doc) ==
    StoreOf(Append(store.docs,
                   [pageContent |-> doc.pageContent, topic |-> <<>>, source |-> <<>>]))

\* vectorStore.addDocuments([doc]) while the embedding is awaited: the store's
\* list is not touched
StoreWhileEmbedding(store, doc) == store

\* a variant of fromDocuments's caller that publishes the store before the
\* documents are in it
PublishedWhileEmbeddingEarly(corpus) == StoreOf(<<>>)

\* initializeVectorStore: the field is assigned after the await of
\* fromDocuments, so it stays unset while the corpus is being embedded
PublishedWhileEmbedding(corpus) == NullStore

InitIndex ==
    /\ LateIdle
    /\ PackIdle /\ VerIdle /\ ServiceIdle /\ QueryReset
    /\ ReqIdle /\ EbIdle /\ FsIdle /\ RrIdle /\ HcIdle /\ MfIdle /\ TkIdle
    /\ WfIdle
    /\ ixLoadPc = "created" /\ ixCorpus = <<>>
    /\ addPc = [a \in AddCalls |-> "idle"]
    /\ addDoc = [a \in AddCalls |-> NoResult]
    /\ ixqPc = [q \in Retrievals |-> "idle"]
    /\ ixqEarly = [adds |-> [a \in AddCalls |-> FALSE],
                   queries |-> [q \in Retrievals |-> FALSE]]
    /\ ixqAfter = [q \in Retrievals |-> {}]
    /\ ixqDuring = [q \in Retrievals |-> {}]
    /\ ixqScanned = [q \in Retrievals |-> <<>>]

nonIndexVars ==
    <<packVars, verVars, config, similarityAgent, generationAgent, qVars,
      reqVars, ebVars, fsVars, rrVars, hcVars, mfVars, tkVars, wfVars,
      lateVars>>

\* onModuleInit -> initializeVectorStore, up to the await of loadInitialDocuments
LoadStart ==
    /\ ixLoadPc = "created"
    /\ ixLoadPc' = "loading"
    /\ UNCHANGED <<vectorStore, ixCorpus, addPc, addDoc, ixqPc, ixqEarly,
                   ixqAfter, ixqDuring, ixqScanned, nonIndexVars>>

\* loadInitialDocuments resolves; fromDocuments starts embedding the corpus
LoadDocuments ==
    /\ ixLoadPc = "loading"
    /\ \E corpus \in LoadedCorpora :
          /\ ixCorpus' = corpus
          /\ vectorStore' = PublishedWhileEmbedding(corpus)
    /\ ixLoadPc' = "embedding"
    /\ UNCHANGED <<addPc, addDoc, ixqPc, ixqEarly, ixqAfter, ixqDuring,
                   ixqScanned, nonIndexVars>>

\* fromDocuments resolves and this.vectorStore is assigned
LoadFinish ==
    /\ ixLoadPc = "embedding"
    /\ vectorStore' = StoreOf(ixCorpus)
    /\ ixLoadPc' = "ready"
    /\ UNCHANGED <<ixCorpus, addPc, addDoc, ixqPc, ixqEarly, ixqAfter,
                   ixqDuring, ixqScanned, nonIndexVars>>

\* the CSV stream errors or the embedding of the corpus rejects: onModuleInit
\* rejects and the field is never assigned
LoadFails ==
    /\ ixLoadPc \in {"loading", "embedding"}
    /\ ixLoadPc' = "failed"
    /\ UNCHANGED <<vectorStore, ixCorpus, addPc, addDoc, ixqPc, ixqEarly,
                   ixqAfter, ixqDuring, ixqScanned, nonIndexVars>>

\* addDocument up to its await: the guard, the Document, the embedding request
AddDocumentStart(a) ==
    /\ addPc[a] = "idle"
    /\ \E content \in AddContents, metadata \in AddMetadata :
          addDoc' = [addDoc EXCEPT ![a] =
                        [content |-> content, metadata |-> metadata,
                         doc |-> IF vectorStore.initialized
                                 THEN BuildDocument(content, metadata)
                                 ELSE NoResult]]
    /\ addPc' = [addPc EXCEPT ![a] =
                    IF vectorStore.initialized THEN "embedding" ELSE "threw"]
    /\ ixqEarly' = [ixqEarly EXCEPT !.adds[a] = ixLoadPc # "ready"]
    /\ vectorStore' = IF vectorStore.initialized
                      THEN StoreWhileEmbedding(vectorStore, addDoc'[a].doc)
                      ELSE vectorStore
    /\ UNCHANGED <<ixLoadPc, ixCorpus, ixqPc, ixqAfter, ixqDuring,
                   ixqScanned, nonIndexVars>>

\* the embedding resolves and the entry is stored; addDocument returns
AddDocumentFinish(a) ==
    /\ addPc[a] = "embedding"
    /\ vectorStore' = AddVectors(vectorStore, addDoc[a].doc)
    /\ addPc' = [addPc EXCEPT ![a] = "done"]
    /\ ixqDuring' = [q \in Retrievals |->
                        IF ixqPc[q] = "embedding"
                        THEN ixqDuring[q] \cup {a} ELSE ixqDuring[q]]
    /\ UNCHANGED <<ixLoadPc, ixCorpus, addDoc, ixqPc, ixqEarly, ixqAfter,
                   ixqScanned, nonIndexVars>>

\* the embedding request rejects: addDocument rejects, nothing is stored
AddDocumentFails(a) ==
    /\ addPc[a] = "embedding"
    /\ addPc' = [addPc EXCEPT ![a] = "failed"]
    /\ UNCHANGED <<vectorStore, ixLoadPc, ixCorpus, addDoc, ixqPc, ixqEarly,
                   ixqAfter, ixqDuring, ixqScanned, nonIndexVars>>

\* query() up to the await inside similaritySearch (the query's embedding)
RetrievalStart(q) ==
    /\ ixqPc[q] = "idle"
    /\ ixqPc' = [ixqPc EXCEPT ![q] =
                    IF vectorStore.initialized THEN "embedding" ELSE "threw"]
    /\ ixqEarly' = [ixqEarly EXCEPT !.queries[q] = ixLoadPc # "ready"]
    /\ ixqAfter' = [ixqAfter EXCEPT ![q] = {a \in AddCalls : addPc[a] = "done"}]
    /\ UNCHANGED <<vectorStore, ixLoadPc, ixCorpus, addPc, addDoc, ixqDuring,
                   ixqScanned, nonIndexVars>>

\* similaritySearch after its await: every stored entry is scored
RetrievalScan(q) ==
    /\ ixqPc[q] = "embedding"
    /\ ixqScanned' = [ixqScanned EXCEPT ![q] = vectorStore.docs]
    /\ ixqPc' = [ixqPc EXCEPT ![q] = "done"]
    /\ UNCHANGED <<vectorStore, ixLoadPc, ixCorpus, addPc, addDoc, ixqEarly,
                   ixqAfter, ixqDuring, nonIndexVars>>

\* the embedding of the question rejects
RetrievalFails(q) ==
    /\ ixqPc[q] = "embedding"
    /\ ixqPc' = [ixqPc EXCEPT ![q] = "failed"]
    /\ UNCHANGED <<vectorStore, ixLoadPc, ixCorpus, addPc, addDoc, ixqEarly,
                   ixqAfter, ixqDuring, ixqScanned, nonIndexVars>>

NextIndex ==
    \/ LoadStart
    \/ LoadDocuments
    \/ LoadFinish
    \/ LoadFails
    \/ \E a \in AddCalls : AddDocumentStart(a)
    \/ \E a \in AddCalls : AddDocumentFinish(a)
    \/ \E a \in AddCalls : AddDocumentFails(a)
    \/ \E q \in Retrievals : RetrievalStart(q)
    \/ \E q \in Retrievals : RetrievalScan(q)
    \/ \E q \in Retrievals : RetrievalFails(q)

SpecIndex == InitIndex /\ [][NextIndex]_vars

\* the addDocument call a completes in this step
AddCompletes(a) == addPc[a] # "done" /\ addPc'[a] = "done"

\* some addDocument call moves in this step without completing
AddMovesOtherwise ==
    /\ addPc' # addPc
    /\ \A a \in AddCalls : ~AddCompletes(a)

Holds(seq, doc) == \E i \in 1..Len(seq) : seq[i] = doc

\* C22: addDocument(content, metadata) appends exactly one document to the
\* index and leaves every existing entry unchanged; the new document carries
\* the given content and source "user-added" whatever source the caller
\* supplied; and every retrieval that starts after addDocument completed scans
\* the document.
C22_AddDocumentAppendsOne ==
    /\ [][/\ \A a \in AddCalls :
                AddCompletes(a) =>
                   /\ vectorStore'.docs =
                         Append(vectorStore.docs,
                                [pageContent |-> addDoc[a].content,
                                 topic |-> addDoc[a].metadata.topic,
                                 source |-> UserAdded])
                   /\ vectorStore'.initialized
          /\ AddMovesOtherwise => vectorStore' = vectorStore]_vars
    /\ [](\A q \in Retrievals :
             ixqPc[q] = "done" =>
                \A a \in ixqAfter[q] : Holds(ixqScanned[q], addDoc[a].doc))

\* an addDocument call whose caller supplied another source completed on a
\* non-empty index, and a retrieval that started afterwards has scanned
C22_Witness ==
    \E a \in AddCalls, q \in Retrievals :
       /\ addPc[a] = "done"
       /\ addDoc[a].metadata.source = <<"w","i","k","i">>
       /\ Len(vectorStore.docs) >= 2
       /\ ixqPc[q] = "done"
       /\ a \in ixqAfter[q]

IsPrefix(short, long) ==
    /\ Len(short) <= Len(long)
    /\ SubSeq(long, 1, Len(short)) = short

\* a call is failed with "Vector store not initialized" in this step
CallRefused ==
    \/ \E a \in AddCalls : addPc[a] = "idle" /\ addPc'[a] = "threw"
    \/ \E q \in Retrievals : ixqPc[q] = "idle" /\ ixqPc'[q] = "threw"

\* C23: no query is answered from a partially loaded corpus: a query or
\* addDocument call that arrives before the startup load has completed is
\* failed with "Vector store not initialized" and changes no state, and the
\* index is visible to queries only once all loaded documents are stored.
C23_NoPartialCorpus ==
    /\ [](/\ \A a \in AddCalls : ixqEarly.adds[a] => addPc[a] = "threw"
          /\ \A q \in Retrievals : ixqEarly.queries[q] => ixqPc[q] = "threw"
          /\ vectorStore.initialized =>
                ixLoadPc = "ready" /\ IsPrefix(ixCorpus, vectorStore.docs)
          /\ \A q \in Retrievals :
                ixqPc[q] = "done" => IsPrefix(ixCorpus, ixqScanned[q]))
    /\ [][CallRefused =>
             /\ vectorStore' = vectorStore
             /\ ixLoadPc' = ixLoadPc /\ ixCorpus' = ixCorpus
             /\ ixqScanned' = ixqScanned]_vars

\* a query and an addDocument call arrived before the load had completed,
\* and the load of a two-document corpus then completed
C23_Witness ==
    /\ \E a \in AddCalls : ixqEarly.adds[a]
    /\ \E q \in Retrievals : ixqEarly.queries[q]
    /\ ixLoadPc = "ready"
    /\ Len(ixCorpus) = 2
    /\ vectorStore.docs = ixCorpus

\* the addDocument calls whose document a retrieval can have met
AddsSeenBy(q) == ixqAfter[q] \cup ixqDuring[q]

\* the entries a retrieval scanned beyond the loaded corpus
ScannedBeyondCorpus(q) ==
    SubSeq(ixqScanned[q], Len(ixCorpus) + 1, Len(ixqScanned[q]))

AgentPhases == {"agentsRetrieve", "agentsRerank", "agentsBlizzard", "agentsGenerate"}
LegacyPhases == {"legacyRetrieve", "legacyBlizzard", "tryModels"}

\* query() returns the apology in this step
ApologyReturned ==
    /\ qPc # "done" /\ qPc' = "done"
    /\ qResult'.kind = "returned"
    /\ qResult'.origin = "apology"

\* C25: degradation order of query(). The multi-agent path is taken exactly
\* when both agents exist; a step of the agent path either stays on it,
\* returns the agent's answer, or (generation failure, or a throw) starts a
\* run of the legacy pipeline; a throw of the legacy pipeline inside the try
\* block starts the legacy pipeline again; and the apology is returned only by
\* a throw of the legacy pipeline running in the catch block.
C25_DegradationOrder ==
    [][/\ (qPc = "idle" /\ qPc' # "idle" /\ vectorStore.initialized) =>
             /\ (similarityAgent /\ generationAgent) => qPc' = "agentsRetrieve"
             /\ ~(similarityAgent /\ generationAgent) => qPc' = "legacyRetrieve"
       /\ qPc \in AgentPhases =>
             \/ qPc' \in AgentPhases
             \/ /\ qPc' = "done"
                /\ qResult'.kind = "returned" /\ qResult'.origin = "agent"
             \/ qPc' = "legacyRetrieve" /\ legacyRuns' = legacyRuns + 1
       /\ (qPc \in LegacyPhases /\ qTry = "main") =>
             \/ qPc' \in LegacyPhases
             \/ /\ qPc' = "done"
                /\ qResult'.kind = "returned" /\ qResult'.origin # "apology"
       /\ ApologyReturned =>
             /\ qPc \in LegacyPhases
             /\ qTry = "fallback"
             /\ legacyRuns >= 1]_vars

\* the generation agent reported failure, the legacy run that followed threw,
\* the legacy run of the catch block threw as well, and the apology came back
C25_Witness ==
    /\ QueryReturned
    /\ qResult.origin = "apology"
    /\ similarityAgent /\ generationAgent
    /\ qGenTried
    /\ legacyRuns = 2

(***************************************************************************)
(* Specification of BaseAgentImpl: initialize() creates the model clients  *)
(* one await at a time, and getHealthyClient probes them in order.         *)
(***************************************************************************)
MaxModels == 2

ModelNames == {"gpt2", "dialo", "gemma"}

\* the lists an agent may be configured with (fallbackModels defaults to [])
ModelLists == UNION {[1..n -> ModelNames] : n \in 0..MaxModels}

\* a variant of the probing order in which the fallback models come first
ProbeOrderFallbackFirst(primary, fallback) ==
    [i \in 1..Len(fallback) |-> [stage |-> "fallback", model |-> fallback[i]]]
      \o [i \in 1..Len(primary) |-> [stage |-> "primary", model |-> primary[i]]]

\* getHealthyClient: the models in the order of its two for loops
ProbeOrder(primary, fallback) ==
    [i \in 1..Len(primary) |-> [stage |-> "primary", model |-> primary[i]]]
      \o [i \in 1..Len(fallback) |-> [stage |-> "fallback", model |-> fallback[i]]]

\* initialize(): the models for which createClient is called, in order; a
\* fallback model that already has a client is skipped
CreationOrder(primary, fallback) ==
    primary \o SelectSeq(fallback, LAMBDA m : \A i \in 1..Len(primary) : primary[i] # m)

NoClient == [kind |-> "null"]
ClientOf(model, stage) == [kind |-> "client", model |-> model, stage |-> stage]

nonAgentVars ==
    <<packVars, verVars, svcVars, qVars, reqVars, ebVars, fsVars, rrVars, ixVars,
      mfVars, tkVars, wfVars,
      lateVars>>

InitAgent ==
    /\ LateIdle
    /\ PackIdle /\ VerIdle /\ ServiceIdle /\ QueryReset
    /\ ReqIdle /\ EbIdle /\ FsIdle /\ RrIdle /\ IxIdle /\ MfIdle /\ TkIdle
    /\ WfIdle
    /\ hcPrimary \in ModelLists \ {<<>>}
    /\ hcFallback \in ModelLists
    /\ hcClients = {}
    /\ hcInit = [pc |-> "running", created |-> 0]
    /\ hcProbes = <<>>
    /\ hcOut = NoResult
    /\ hcPc = "idle"

\* initialize(): one createClient call resolves and its client is stored, or
\* the loops are through
InitializeStep ==
    /\ hcInit.pc = "running"
    /\ IF hcInit.created = Len(CreationOrder(hcPrimary, hcFallback))
       THEN hcInit' = [hcInit EXCEPT !.pc = "done"] /\ UNCHANGED hcClients
       ELSE /\ hcInit' = [hcInit EXCEPT !.created = @ + 1]
            /\ hcClients' =
                  hcClients \cup {CreationOrder(hcPrimary, hcFallback)[hcInit.created + 1]}
    /\ UNCHANGED <<hcPrimary, hcFallback, hcProbes, hcOut, hcPc, nonAgentVars>>

\* initialize(): createClient throws (the model is not in the registry) and
\* initialize rethrows
InitializeFails ==
    /\ hcInit.pc = "running"
    /\ hcInit.created < Len(CreationOrder(hcPrimary, hcFallback))
    /\ hcInit' = [hcInit EXCEPT !.pc = "failed"]
    /\ UNCHANGED <<hcPrimary, hcFallback, hcClients, hcProbes, hcOut, hcPc, nonAgentVars>>

\* getHealthyClient is called
GetHealthyClientStart ==
    /\ hcPc \in {"idle", "done"}
    /\ hcPc' = "probing"
    /\ hcProbes' = <<>>
    /\ hcOut' = NoResult
    /\ UNCHANGED <<hcPrimary, hcFallback, hcClients, hcInit, nonAgentVars>>

\* one iteration of the loops: modelClients.get(modelName), the await of
\* client.isHealthy() when there is a client, and the return; after the last
\* iteration, return null
GetHealthyClientStep ==
    /\ hcPc = "probing"
    /\ LET order == ProbeOrder(hcPrimary, hcFallback)
           i == Len(hcProbes) + 1
       IN  IF i > Len(order)
           THEN /\ hcOut' = NoClient
                /\ hcPc' = "done"
                /\ UNCHANGED hcProbes
           ELSE \E answer \in BOOLEAN :
                   LET hasClient == order[i].model \in hcClients
                       healthy == hasClient /\ answer
                   IN  /\ hcProbes' = Append(hcProbes,
                                             [stage |-> order[i].stage,
                                              model |-> order[i].model,
                                              client |-> hasClient,
                                              healthy |-> healthy])
                       /\ IF healthy
                          THEN /\ hcOut' = ClientOf(order[i].model, order[i].stage)
                               /\ hcPc' = "done"
                          ELSE UNCHANGED <<hcOut, hcPc>>
    /\ UNCHANGED <<hcPrimary, hcFallback, hcClients, hcInit, nonAgentVars>>

NextAgent ==
    \/ InitializeStep
    \/ InitializeFails
    \/ GetHealthyClientStart
    \/ GetHealthyClientStep

SpecAgent == InitAgent /\ [][NextAgent]_vars

HealthyClientReturned == hcPc = "done" /\ hcOut # NoResult

\* the models as the configuration lists them, primaries first
ConfiguredOrder == hcPrimary \o hcFallback

\* C26: getHealthyClient asks the models in configured order, primaries
\* first, and returns the first one whose client answers healthy: a fallback
\* model's client is returned only after every primary model was asked and
\* none was healthy, and null only after every configured model was asked and
\* none was healthy.
C26_FallbackOnlyWithoutHealthyPrimary ==
    HealthyClientReturned =>
       /\ Len(hcProbes) <= Len(ConfiguredOrder)
       /\ \A i \in 1..Len(hcProbes) :
             /\ hcProbes[i].model = ConfiguredOrder[i]
             /\ hcProbes[i].stage = (IF i <= Len(hcPrimary) THEN "primary" ELSE "fallback")
             /\ i < Len(hcProbes) => ~hcProbes[i].healthy
       /\ hcOut.kind = "client" =>
             /\ hcProbes # <<>>
             /\ hcProbes[Len(hcProbes)].healthy
             /\ hcOut.model = hcProbes[Len(hcProbes)].model
             /\ hcOut.stage = hcProbes[Len(hcProbes)].stage
             /\ hcOut.stage = "fallback" =>
                   /\ Len(hcProbes) > Len(hcPrimary)
                   /\ \A i \in 1..Len(hcPrimary) : ~hcProbes[i].healthy
       /\ hcOut.kind = "null" =>
             /\ Len(hcProbes) = Len(ConfiguredOrder)
             /\ \A i \in 1..Len(hcProbes) : ~hcProbes[i].healthy

\* two primary models answered unhealthy and the second fallback model, the
\* first healthy one, was returned
C26_Witness ==
    /\ HealthyClientReturned
    /\ hcOut.kind = "client"
    /\ hcOut.stage = "fallback"
    /\ Len(hcPrimary) = 2
    /\ Len(hcProbes) = 4
    /\ hcProbes[1].client /\ hcProbes[2].client

(***************************************************************************)
(* Specification of ModelFactory: createClient with its cache, clearCache  *)
(***************************************************************************)
MaxFactoryCalls == 3

Gpt2Name == <<"g","p","t","2">>
UnknownName == <<"n","o","p","e">>

\* ModelRegistry.getModel finds an entry for these names
RegisteredModels == {Gpt2Name}
FactoryModelNames == {Gpt2Name, UnknownName}

MaxRetriesKey == <<"m","a","x","R","e","t","r","i","e","s">>
TimeoutKey == <<"t","i","m","e","o","u","t">>

\* the config argument: left out, or an object with its own properties in
\* insertion order
NoConfig == [given |-> FALSE, props |-> <<>>]
ConfigOf(props) == [given |-> TRUE, props |-> props]
FactoryConfigs ==
    {NoConfig, ConfigOf(<<>>),
     ConfigOf(<<[key |-> MaxRetriesKey, value |-> 1]>>),
     ConfigOf(<<[key |-> MaxRetriesKey, value |-> 1], [key |-> TimeoutKey, value |-> 2]>>),
     ConfigOf(<<[key |-> TimeoutKey, value |-> 2], [key |-> MaxRetriesKey, value |-> 1]>>)}

\* the properties of config || {}
ConfigProperties(conf) == IF conf.given THEN conf.props ELSE <<>>

\* JSON.stringify of an object with numeric properties
JsonStringify(props) ==
    <<"{">>
      \o Join([i \in 1..Len(props) |->
                  <<"\"">> \o props[i].key \o <<"\"", ":">> \o NumStr(props[i].value)],
              <<",">>)
      \o <<"}">>

\* createClient: `${modelName}-${JSON.stringify(config || {})}`
CacheKey(modelName, conf) ==
    modelName \o <<"-">> \o JsonStringify(ConfigProperties(conf))

CacheHas(cache, key) == \E e \in cache : e.key = key
CacheGet(cache, key) == (CHOOSE e \in cache : e.key = key).client

FactoryReturned(client, fresh) == [kind |-> "returned", client |-> client, fresh |-> fresh]

\* createClient: what it returns or throws, and the cache it leaves
createClient(cache, created, modelName, conf) ==
    LET key == CacheKey(modelName, conf) IN
    IF CacheHas(cache, key)
    THEN [out |-> FactoryReturned(CacheGet(cache, key), FALSE),
          cache |-> cache, created |-> created]
    ELSE IF modelName \notin RegisteredModels
    THEN [out |-> ThrewError("not found in registry"),
          cache |-> cache, created |-> created]
    ELSE [out |-> FactoryReturned(created + 1, TRUE),
          cache |-> cache \cup {[key |-> key, client |-> created + 1]},
          created |-> created + 1]

nonFactoryVars ==
    <<packVars, verVars, svcVars, qVars, reqVars, ebVars, fsVars, rrVars, ixVars,
      hcVars, tkVars, wfVars,
      lateVars>>

InitFactory ==
    /\ LateIdle
    /\ PackIdle /\ VerIdle /\ ServiceIdle /\ QueryReset
    /\ ReqIdle /\ EbIdle /\ FsIdle /\ RrIdle /\ IxIdle /\ HcIdle /\ TkIdle
    /\ WfIdle
    /\ mfCache = {}
    /\ mfCreated = 0
    /\ mfCalls = <<>>
    /\ mfPc = "ready"

\* a createClient call (it has no await, so it runs in one step)
CreateClient ==
    /\ mfPc = "ready"
    /\ Len(mfCalls) < MaxFactoryCalls
    /\ \E modelName \in FactoryModelNames, conf \in FactoryConfigs :
          LET r == createClient(mfCache, mfCreated, modelName, conf) IN
          /\ mfCache' = r.cache
          /\ mfCreated' = r.created
          /\ mfCalls' = Append(mfCalls, [modelName |-> modelName, config |-> conf,
                                         out |-> r.out])
    /\ UNCHANGED <<mfPc, nonFactoryVars>>

\* clearCache()
ClearCache ==
    /\ mfPc = "ready"
    /\ mfCalls # <<>>
    /\ mfCreated < MaxFactoryCalls
    /\ mfCache' = {}
    /\ mfCalls' = <<>>
    /\ UNCHANGED <<mfCreated, mfPc, nonFactoryVars>>

NextFactory ==
    \/ CreateClient
    \/ ClearCache

SpecFactory == InitFactory /\ [][NextFactory]_vars

\* two configs with the same properties and values
SameConfig(c1, c2) ==
    {ConfigProperties(c1)[i] : i \in 1..Len(ConfigProperties(c1))}
       = {ConfigProperties(c2)[i] : i \in 1..Len(ConfigProperties(c2))}

\* C27: model clients are reused: of the createClient calls made since the
\* last clearCache, two with the same model name and the same config that both
\* returned a client returned the identical instance; and a createClient call
\* that fails leaves the cache unchanged.
C27_ClientsReused ==
    /\ \A i, j \in 1..Len(mfCalls) :
          (/\ mfCalls[i].modelName = mfCalls[j].modelName
           /\ SameConfig(mfCalls[i].config, mfCalls[j].config)
           /\ mfCalls[i].out.kind = "returned"
           /\ mfCalls[j].out.kind = "returned")
             => mfCalls[i].out.client = mfCalls[j].out.client
    /\ \A modelName \in FactoryModelNames, conf \in FactoryConfigs :
          createClient(mfCache, mfCreated, modelName, conf).out.kind = "threw"
             => createClient(mfCache, mfCreated, modelName, conf).cache = mfCache

(***************************************************************************)
(* Specification of BlizzardService.getAccessToken: the cached token, the  *)
(* clock, and the OAuth endpoint that issues tokens with a lifetime        *)
(***************************************************************************)
MaxClock == 120000
MaxTokens == 2
MaxCallers == 2

ClockStep == 30000
RefreshMargin == 60000

Callers == 1..MaxCallers

\* response.data.expires_in, in seconds, as the endpoint may send it
ExpiresIns == {30, 90, 120}

\* the end of a token's validity, in milliseconds
ValidUntil(token) == tkIssued[token].at + tkIssued[token].expiresIn * 1000

\* getAccessToken: this.accessToken && this.tokenExpiry > now
CachedTokenUsable(accessToken, tokenExpiry, now) ==
    accessToken # 0 /\ tokenExpiry > now

\* getAccessToken: now + (response.data.expires_in * 1000) - 60000
TokenExpiryOf(now, expiresIn) == now + (expiresIn * 1000) - RefreshMargin

IdleCall == [pc |-> "idle"]

nonTokenVars ==
    <<packVars, verVars, svcVars, qVars, reqVars, ebVars, fsVars, rrVars, ixVars,
      hcVars, mfVars, wfVars,
      lateVars>>

InitToken ==
    /\ LateIdle
    /\ PackIdle /\ VerIdle /\ ServiceIdle /\ QueryReset
    /\ ReqIdle /\ EbIdle /\ FsIdle /\ RrIdle /\ IxIdle /\ HcIdle /\ MfIdle
    /\ WfIdle
    /\ tkClock = 0
    /\ tkAccessToken = 0
    /\ tkTokenExpiry = 0
    /\ tkIssued = <<>>
    /\ tkCall = [c \in Callers |-> IdleCall]
    /\ tkPc = "ready"

\* time passes
ClockAdvances ==
    /\ tkPc = "ready"
    /\ tkClock + ClockStep <= MaxClock
    /\ tkClock' = tkClock + ClockStep
    /\ UNCHANGED <<tkAccessToken, tkTokenExpiry, tkIssued, tkCall, tkPc, nonTokenVars>>

\* getAccessToken up to its await: the cached token is returned, or the POST
\* to the OAuth endpoint is sent
GetAccessTokenStart(c) ==
    /\ tkPc = "ready"
    /\ tkCall[c].pc \in {"idle", "returned", "threw"}
    /\ tkCall' = [tkCall EXCEPT ![c] =
          IF CachedTokenUsable(tkAccessToken, tkTokenExpiry, tkClock)
          THEN [pc |-> "returned", now |-> tkClock, cached |-> tkAccessToken,
                contacted |-> FALSE, token |-> tkAccessToken, at |-> tkClock]
          ELSE [pc |-> "posting", now |-> tkClock, cached |-> tkAccessToken]]
    /\ UNCHANGED <<tkClock, tkAccessToken, tkTokenExpiry, tkIssued, tkPc, nonTokenVars>>

\* the OAuth endpoint answers the POST with a token and its lifetime
OAuthIssues(c) ==
    /\ tkPc = "ready"
    /\ tkCall[c].pc = "posting"
    /\ Len(tkIssued) < MaxTokens
    /\ \E expiresIn \in ExpiresIns :
          tkIssued' = Append(tkIssued, [at |-> tkClock, expiresIn |-> expiresIn])
    /\ tkCall' = [tkCall EXCEPT ![c] =
          [pc |-> "answered", now |-> tkCall[c].now, cached |-> tkCall[c].cached,
           token |-> Len(tkIssued) + 1]]
    /\ UNCHANGED <<tkClock, tkAccessToken, tkTokenExpiry, tkPc, nonTokenVars>>

\* getAccessToken after its await: the token and its expiry are stored and the
\* token is returned
GetAccessTokenFinish(c) ==
    /\ tkPc = "ready"
    /\ tkCall[c].pc = "answered"
    /\ tkAccessToken' = tkCall[c].token
    /\ tkTokenExpiry' = TokenExpiryOf(tkCall[c].now, tkIssued[tkCall[c].token].expiresIn)
    /\ tkCall' = [tkCall EXCEPT ![c] =
          [pc |-> "returned", now |-> tkCall[c].now, cached |-> tkCall[c].cached,
           contacted |-> TRUE, token |-> tkCall[c].token, at |-> tkClock]]
    /\ UNCHANGED <<tkClock, tkIssued, tkPc, nonTokenVars>>

\* the POST fails: 'Failed to authenticate with Blizzard API' is thrown
GetAccessTokenFails(c) ==
    /\ tkPc = "ready"
    /\ tkCall[c].pc = "posting"
    /\ tkCall' = [tkCall EXCEPT ![c] =
          [pc |-> "threw", now |-> tkCall[c].now, cached |-> tkCall[c].cached]]
    /\ UNCHANGED <<tkClock, tkAccessToken, tkTokenExpiry, tkIssued, tkPc, nonTokenVars>>

NextToken ==
    \/ ClockAdvances
    \/ \E c \in Callers : GetAccessTokenStart(c)
    \/ \E c \in Callers : OAuthIssues(c)
    \/ \E c \in Callers : GetAccessTokenFinish(c)
    \/ \E c \in Callers : GetAccessTokenFails(c)

SpecToken == InitToken /\ [][NextToken]_vars

\* C28: Blizzard token caching with refresh one minute before expiry: a call
\* returns the cached token without contacting the OAuth endpoint exactly
\* while the time of the call is before the cached token's (issue time +
\* expires_in - 60 s), and no call hands out a token that is in its last 60
\* seconds of validity or expired.
C28_TokenNeverInLastMinute ==
    \A c \in Callers :
       tkCall[c].pc = "returned" =>
          /\ tkCall[c].at < ValidUntil(tkCall[c].token) - RefreshMargin
          /\ tkCall[c].contacted =
                ~(/\ tkCall[c].cached # 0
                  /\ tkCall[c].now < ValidUntil(tkCall[c].cached) - RefreshMargin)

(***************************************************************************)
(* Specification of LangGraphWorkflow.execute: the nodes and conditional   *)
(* edges of the compiled graph, run under the recursion limit              *)
(***************************************************************************)
MaxIterations == 3

BlizzardKeywords ==
    {<<"r","e","a","l","m">>, <<"s","e","r","v","e","r">>,
     <<"c","h","a","r","a","c","t","e","r">>, <<"c","h","a","r">>,
     <<"g","u","i","l","d">>, <<"i","t","e","m">>, <<"a","u","c","t","i","o","n">>,
     <<"l","i","v","e">>, <<"c","u","r","r","e","n","t">>,
     <<"r","e","a","l","-","t","i","m","e">>, <<"n","o","w">>,
     <<"t","o","d","a","y">>, <<"r","e","c","e","n","t">>}

\* WorkflowEdges.shouldUseBlizzardAgent
shouldUseBlizzardAgent(q) ==
    \E keyword \in BlizzardKeywords : Includes(ToLowerCase(q), keyword)

\* WorkflowEdges.afterInitialize
afterInitialize(q) ==
    IF shouldUseBlizzardAgent(q) THEN "parallel_agents" ELSE "rag_only"

\* WorkflowEdges.afterRagAgent; confidences are counted in tenths
afterRagAgent(currentStep, ragResult) ==
    IF currentStep = "rag_failed" THEN "blizzard_fallback"
    ELSE IF ragResult # NoResult /\ ragResult.confidence > 7 THEN "synthesis"
    ELSE IF ragResult # NoResult /\ ragResult.confidence < 5 THEN "blizzard_additional"
    ELSE "synthesis"

\* WorkflowEdges.afterBlizzardAgent
afterBlizzardAgent == "synthesis"

\* WorkflowEdges.afterSynthesis
afterSynthesis(currentStep) ==
    IF currentStep = "synthesis_completed" THEN "end"
    ELSE IF currentStep = "synthesis_failed" THEN "fallback_response"
    ELSE "end"

\* initializeWorkflow: the targets of the conditional edges
EdgeTarget(node, label) ==
    IF node = "initialize"
    THEN (IF label = "blizzard_only" THEN "blizzard_agent" ELSE "rag_agent")
    ELSE IF node = "rag_agent"
    THEN (IF label \in {"blizzard_fallback", "blizzard_additional"} THEN "blizzard_agent"
          ELSE IF label = "synthesis" THEN "synthesis"
          ELSE "END")
    ELSE IF node = "blizzard_agent"
    THEN (IF label = "synthesis" THEN "synthesis" ELSE "END")
    ELSE (IF label = "retry" THEN "initialize" ELSE "END")

Min(a, b) == IF a < b THEN a ELSE b

\* a variant of calculateConfidence that starts from 0.4
calculateConfidenceLowBase(sources, longAnswer) ==
    Min(4 + (IF sources > 0 THEN Min(sources, 3) ELSE 0) + (IF longAnswer THEN 1 ELSE 0),
        10)

\* WorkflowNodes.calculateConfidence, in tenths
calculateConfidence(sources, longAnswer) ==
    Min(5 + (IF sources > 0 THEN Min(sources, 3) ELSE 0) + (IF longAnswer THEN 1 ELSE 0),
        10)

\* WorkflowNodes.calculateFinalConfidence, in twentieths
calculateFinalConfidence(ragResult, blizzardResult) ==
    IF ragResult # NoResult /\ blizzardResult # NoResult
    THEN ragResult.confidence + blizzardResult.confidence
    ELSE IF ragResult # NoResult THEN 2 * ragResult.confidence
    ELSE IF blizzardResult # NoResult THEN 2 * blizzardResult.confidence
    ELSE 10

\* the parts of an AgentResult that tell where it came from
AgentResultOf(agent, confidence, parts) ==
    [agent |-> agent, confidence |-> confidence, parts |-> parts]

\* the node executions invoke() has room for under recursionLimit: the limit
\* counts the steps of the graph run, and the step that finds nothing left to
\* run may or may not need a slot of its own
RecursionBudgets == {MaxIterations - 1, MaxIterations}

nonWorkflowVars ==
    <<packVars, verVars, svcVars, qVars, reqVars, ebVars, fsVars, rrVars, ixVars,
      hcVars, mfVars, tkVars,
      lateVars>>

InitWorkflow ==
    /\ LateIdle
    /\ PackIdle /\ VerIdle /\ ServiceIdle /\ QueryReset
    /\ ReqIdle /\ EbIdle /\ FsIdle /\ RrIdle /\ IxIdle /\ HcIdle /\ MfIdle /\ TkIdle
    /\ wfCompiled = FALSE
    /\ wfQuestion = <<>>
    /\ wfNode = "idle"
    /\ wfStep = "off"
    /\ wfRag = NoResult /\ wfBlz = NoResult /\ wfFinal = NoResult
    /\ wfTrace = <<>>
    /\ wfBudget \in RecursionBudgets
    /\ wfOut = NoResult

\* initializeWorkflow()
InitializeWorkflow ==
    /\ wfNode = "idle"
    /\ ~wfCompiled
    /\ wfCompiled' = TRUE
    /\ UNCHANGED <<wfQuestion, wfNode, wfStep, wfRag, wfBlz, wfFinal, wfTrace,
                   wfBudget, wfOut, nonWorkflowVars>>

\* execute(question, vectorStore) up to invoke()
ExecuteStart ==
    /\ wfNode \in {"idle", "returned"}
    /\ \E q \in Questions : wfQuestion' = q
    /\ wfRag' = NoResult /\ wfBlz' = NoResult /\ wfFinal' = NoResult
    /\ wfTrace' = <<>>
    /\ IF wfCompiled
       THEN wfNode' = "initialize" /\ wfStep' = "start" /\ wfOut' = NoResult
       ELSE /\ wfNode' = "returned" /\ wfStep' = "off"
            /\ wfOut' = ThrewError("Workflow not initialized")
    /\ UNCHANGED <<wfCompiled, wfBudget, nonWorkflowVars>>

\* the node initialize and its conditional edge
NodeInitialize ==
    /\ wfNode = "initialize"
    /\ Len(wfTrace) < wfBudget
    /\ wfStep' = "initialized"
    /\ wfTrace' = Append(wfTrace, "initialize")
    /\ wfNode' = EdgeTarget("initialize", afterInitialize(wfQuestion))
    /\ UNCHANGED <<wfCompiled, wfQuestion, wfRag, wfBlz, wfFinal, wfBudget, wfOut,
                   nonWorkflowVars>>

\* the node rag_agent and its conditional edge
NodeRagAgent ==
    /\ wfNode = "rag_agent"
    /\ Len(wfTrace) < wfBudget
    /\ \/ \E sources \in 0..3, longAnswer \in BOOLEAN :
            /\ wfRag' = AgentResultOf("RAG", calculateConfidence(sources, longAnswer),
                                      {"rag"})
            /\ wfStep' = "rag_completed"
       \/ /\ wfStep' = "rag_failed"
          /\ UNCHANGED wfRag
    /\ wfTrace' = Append(wfTrace, "rag_agent")
    /\ wfNode' = EdgeTarget("rag_agent", afterRagAgent(wfStep', wfRag'))
    /\ UNCHANGED <<wfCompiled, wfQuestion, wfBlz, wfFinal, wfBudget, wfOut,
                   nonWorkflowVars>>

\* the node blizzard_agent and its conditional edge
NodeBlizzardAgent ==
    /\ wfNode = "blizzard_agent"
    /\ Len(wfTrace) < wfBudget
    /\ \/ /\ wfBlz' = AgentResultOf("Blizzard", 8, {"blizzard"})
          /\ wfStep' = "blizzard_completed"
       \/ /\ wfStep' = "blizzard_failed"
          /\ UNCHANGED wfBlz
    /\ wfTrace' = Append(wfTrace, "blizzard_agent")
    /\ wfNode' = EdgeTarget("blizzard_agent", afterBlizzardAgent)
    /\ UNCHANGED <<wfCompiled, wfQuestion, wfRag, wfFinal, wfBudget, wfOut,
                   nonWorkflowVars>>

\* the node synthesis and its conditional edge
NodeSynthesis ==
    /\ wfNode = "synthesis"
    /\ Len(wfTrace) < wfBudget
    /\ \/ /\ wfFinal' =
                AgentResultOf("Synthesis", calculateFinalConfidence(wfRag, wfBlz),
                              (IF wfRag # NoResult THEN {"rag"} ELSE {})
                                 \cup (IF wfBlz # NoResult THEN {"blizzard"} ELSE {}))
          /\ wfStep' = "synthesis_completed"
       \/ /\ wfStep' = "synthesis_failed"
          /\ UNCHANGED wfFinal
    /\ wfTrace' = Append(wfTrace, "synthesis")
    /\ wfNode' = EdgeTarget("synthesis", afterSynthesis(wfStep'))
    /\ UNCHANGED <<wfCompiled, wfQuestion, wfRag, wfBlz, wfBudget, wfOut,
                   nonWorkflowVars>>

\* invoke() gives up: a node is still to run and the recursion limit is used
\* up; execute() catches the error and returns createErrorResult
RecursionLimitReached ==
    /\ wfNode \in {"initialize", "rag_agent", "blizzard_agent", "synthesis"}
    /\ Len(wfTrace) >= wfBudget
    /\ wfOut' = [kind |-> "returned", result |-> AgentResultOf("Error", 1, {})]
    /\ wfNode' = "returned"
    /\ UNCHANGED <<wfCompiled, wfQuestion, wfStep, wfRag, wfBlz, wfFinal, wfTrace,
                   wfBudget, nonWorkflowVars>>

\* createFallbackResult, in twentieths like the synthesis confidence
createFallbackResult(ragResult, blizzardResult) ==
    IF ragResult # NoResult
    THEN AgentResultOf("Fallback", 2 * ragResult.confidence, {"rag"})
    ELSE IF blizzardResult # NoResult
    THEN AgentResultOf("Fallback", 2 * blizzardResult.confidence, {"blizzard"})
    ELSE AgentResultOf("Fallback", 6, {})

\* invoke() resolves at END; execute() returns finalResult or the fallback
ExecuteFinish ==
    /\ wfNode = "END"
    /\ wfOut' = [kind |-> "returned",
                 result |-> IF wfFinal # NoResult THEN wfFinal
                            ELSE createFallbackResult(wfRag, wfBlz)]
    /\ wfNode' = "returned"
    /\ UNCHANGED <<wfCompiled, wfQuestion, wfStep, wfRag, wfBlz, wfFinal, wfTrace,
                   wfBudget, nonWorkflowVars>>

NextWorkflow ==
    \/ InitializeWorkflow
    \/ ExecuteStart
    \/ NodeInitialize
    \/ NodeRagAgent
    \/ NodeBlizzardAgent
    \/ NodeSynthesis
    \/ RecursionLimitReached
    \/ ExecuteFinish

SpecWorkflow == InitWorkflow /\ [][NextWorkflow]_vars

ExecuteReturned == wfNode = "returned" /\ wfOut # NoResult /\ wfTrace # <<>>

\* C29: every execution of the workflow terminates: every path from START
\* through initialize, rag_agent, blizzard_agent and synthesis reaches END
\* after a bounded number of node executions (the retry edge is never an
\* unbounded loop), and execute() then returns an AgentResult without throwing.
C29_EveryPathReachesEnd ==
    /\ Len(wfTrace) <= MaxIterations + 1
    /\ ExecuteReturned =>
          /\ wfOut.kind = "returned"
          /\ EdgeTarget(wfTrace[Len(wfTrace)],
                        IF wfTrace[Len(wfTrace)] = "synthesis"
                        THEN afterSynthesis(wfStep) ELSE "end") = "END"
          /\ wfOut.result.agent \in {"Synthesis", "Fallback"}

\* C30: when the question contains a Blizzard keyword (afterInitialize returns
\* "parallel_agents"), the graph run by execute() executes both the RAG agent
\* and the Blizzard agent before synthesis, and the synthesized result is
\* built from both agents' results.
C30_KeywordRunsBothAgents ==
    (/\ afterInitialize(wfQuestion) = "parallel_agents"
     /\ \E i \in 1..Len(wfTrace) : wfTrace[i] = "synthesis")
       => /\ \E i, j, k \in 1..Len(wfTrace) :
                /\ wfTrace[i] = "rag_agent"
                /\ wfTrace[j] = "blizzard_agent"
                /\ wfTrace[k] = "synthesis"
                /\ i < k /\ j < k
          /\ wfFinal # NoResult => wfFinal.parts = {"rag", "blizzard"}

\* C38: the legacy pipeline runs at most once per query: in a single call of
\* query(), queryLegacy is invoked at most one time, whichever of the agent
\* path and the legacy path fail.
C38_LegacyRunsAtMostOnce == legacyRuns <= 1

\* C39: the confidence that the rag_agent node assigns to its result is always
\* between 0.5 and 0.9 inclusive, so afterRagAgent never returns
\* "blizzard_additional": in the graph workflow the Blizzard agent runs only
\* when the RAG node has failed.
C39_BlizzardOnlyAfterRagFailed ==
    /\ wfRag # NoResult => wfRag.confidence \in 5..9
    /\ afterRagAgent(wfStep, wfRag) # "blizzard_additional"
    /\ (\E i \in 1..Len(wfTrace) : wfTrace[i] = "blizzard_agent")
          => /\ wfRag = NoResult
             /\ \E j \in 1..Len(wfTrace) : wfTrace[j] = "rag_agent"

C39_Witness ==
    /\ wfStep = "rag_completed"
    /\ wfRag # NoResult /\ wfRag.confidence = 5
    /\ wfNode = "synthesis"

(***************************************************************************)
(* Specification of BaseAgentImpl.executeWithRetry: one call, its attempts, *)
(* the race of each attempt against the timeout, and the backoff sleeps     *)
(***************************************************************************)
EarlyIdle ==
    /\ PackIdle /\ VerIdle /\ ServiceIdle /\ QueryReset
    /\ ReqIdle /\ EbIdle /\ FsIdle /\ RrIdle
    /\ IxIdle /\ HcIdle /\ MfIdle /\ TkIdle /\ WfIdle

\* the messages of the errors an operation rejects with
OperationErrors == {"No healthy model available", "Text generation failed"}

\* createTimeoutPromise: the error the timer rejects with
TimeoutMessage == "Operation timed out after 30000ms"

\* the text used when lastError has no message
GenericFailure == "failed after maxRetries attempts"

ErrorOf(msg) == [message |-> msg]

\* an entry of the call's history
RetryEvent(e, n, msg) == [e |-> e, n |-> n, msg |-> msg]

\* a variant that sleeps after every failed attempt
SleepsAfterEvery(att, maxRetries) == att <= maxRetries

\* if (attempt < this.config.maxRetries) await this.sleep(...)
SleepsAfter(att, maxRetries) == att < maxRetries

\* success: true, data: result
RetrySuccess(data) == [kind |-> "returned", success |-> TRUE, data |-> data, error |-> ""]

\* success: false, error: lastError?.message || `... failed after N attempts`
RetryFailure(lastError) ==
    [kind |-> "returned", success |-> FALSE, data |-> 0,
     error |-> IF lastError = Null \/ lastError.message = ""
               THEN GenericFailure ELSE lastError.message]

nonRetryVars == <<earlyVars, gvVars, epVars, orVars>>

InitRetry ==
    /\ EarlyIdle /\ GvIdle /\ EpIdle /\ OrIdle
    /\ rtMaxRetries \in 1..MaxRetriesCfg
    /\ rtAttempt = 0
    /\ rtRunning = {}
    /\ rtLastError = Null
    /\ rtLog = <<>>
    /\ rtOut = NoResult
    /\ rtPc = "idle"

\* the for loop's test and what follows it: the next attempt, or the final
\* return when attempt has passed maxRetries
LoopTest(att, lastError, log) ==
    /\ rtAttempt' = att
    /\ rtLastError' = lastError
    /\ rtLog' = log
    /\ IF att <= rtMaxRetries
       THEN rtPc' = "attempt" /\ rtOut' = rtOut
       ELSE rtPc' = "returned" /\ rtOut' = RetryFailure(lastError)

\* executeWithRetry(operation, operationName) up to the loop
ExecuteWithRetryStart ==
    /\ rtPc \in {"idle", "returned"}
    /\ rtRunning' = {}
    /\ rtAttempt' = 1 /\ rtLastError' = Null /\ rtLog' = <<>>
    /\ IF 1 <= rtMaxRetries
       THEN rtPc' = "attempt" /\ rtOut' = NoResult
       ELSE rtPc' = "returned" /\ rtOut' = RetryFailure(Null)
    /\ UNCHANGED <<rtMaxRetries, nonRetryVars>>

\* Promise.race([operation(), createTimeoutPromise(timeout)]): the operation
\* is called and the timer is set
AttemptStarts ==
    /\ rtPc = "attempt"
    /\ rtRunning' = rtRunning \cup {rtAttempt}
    /\ rtLog' = Append(rtLog, RetryEvent("op", rtAttempt, ""))
    /\ rtPc' = "racing"
    /\ UNCHANGED <<rtMaxRetries, rtAttempt, rtLastError, rtOut, nonRetryVars>>

\* the operation's promise resolves before the timer: return success
OperationResolves ==
    /\ rtPc = "racing"
    /\ rtRunning' = rtRunning \ {rtAttempt}
    /\ rtLog' = Append(rtLog, RetryEvent("ok", rtAttempt, ""))
    /\ rtOut' = RetrySuccess(rtAttempt)
    /\ rtPc' = "returned"
    /\ UNCHANGED <<rtMaxRetries, rtAttempt, rtLastError, nonRetryVars>>

\* the catch block: lastError is set, then the sleep when one is due, else
\* the loop goes on
Catch(error, event) ==
    IF SleepsAfter(rtAttempt, rtMaxRetries)
    THEN /\ rtLastError' = error
         /\ rtLog' = rtLog \o <<event, RetryEvent("sleep", rtAttempt, "")>>
         /\ rtPc' = "sleeping"
         /\ UNCHANGED <<rtAttempt, rtOut>>
    ELSE LoopTest(rtAttempt + 1, error, Append(rtLog, event))

\* the operation's promise rejects before the timer
OperationRejects(msg) ==
    /\ rtPc = "racing"
    /\ rtRunning' = rtRunning \ {rtAttempt}
    /\ Catch(ErrorOf(msg), RetryEvent("fail", rtAttempt, msg))
    /\ UNCHANGED <<rtMaxRetries, nonRetryVars>>

\* the timer rejects first; Promise.race settles and leaves the operation's
\* promise pending
TimeoutFires ==
    /\ rtPc = "racing"
    /\ Catch(ErrorOf(TimeoutMessage), RetryEvent("timeout", rtAttempt, TimeoutMessage))
    /\ UNCHANGED <<rtMaxRetries, rtRunning, nonRetryVars>>

\* the backoff sleep ends and the loop goes on
SleepEnds ==
    /\ rtPc = "sleeping"
    /\ LoopTest(rtAttempt + 1, rtLastError, rtLog)
    /\ UNCHANGED <<rtMaxRetries, rtRunning, nonRetryVars>>

\* an operation that lost its race settles; nobody awaits it
AbandonedSettles(n) ==
    /\ n \in rtRunning
    /\ ~(rtPc = "racing" /\ n = rtAttempt)
    /\ rtRunning' = rtRunning \ {n}
    /\ UNCHANGED <<rtMaxRetries, rtAttempt, rtLastError, rtLog, rtOut, rtPc, nonRetryVars>>

NextRetry ==
    \/ ExecuteWithRetryStart
    \/ AttemptStarts
    \/ OperationResolves
    \/ \E msg \in OperationErrors : OperationRejects(msg)
    \/ TimeoutFires
    \/ SleepEnds
    \/ \E n \in 1..MaxRetriesCfg : AbandonedSettles(n)

\* timers fire and pending continuations run: the event loop keeps the call
\* going; whether an operation settles is left to the race with its timer
SpecRetry == InitRetry /\ [][NextRetry]_vars /\ WF_vars(TimeoutFires \/ AttemptStarts \/ SleepEnds)

\* the attempts made so far, and what became of attempt n
OpsMade == {i \in 1..Len(rtLog) : rtLog[i].e = "op"}
OutcomeOf(n) == {rtLog[i] : i \in {j \in 1..Len(rtLog) : rtLog[j].n = n /\ rtLog[j].e # "op"
                                                          /\ rtLog[j].e # "sleep"}}

C31_Safety ==
    /\ rtOut # NoResult => rtOut.kind = "returned"
    /\ Cardinality(OpsMade) <= rtMaxRetries
    /\ \A i \in 1..Len(rtLog) :
          /\ rtLog[i].e = "op" => rtLog[i].n = Cardinality({j \in OpsMade : j <= i})
          /\ rtLog[i].e = "sleep" => rtLog[i].n < rtMaxRetries
          /\ rtLog[i].e = "ok" => i = Len(rtLog)
    /\ (rtPc = "returned" /\ rtOut.success)
          => /\ rtLog[Len(rtLog)] = RetryEvent("ok", rtAttempt, "")
             /\ rtOut.data = rtAttempt
             /\ \A n \in 1..(rtAttempt - 1) :
                   \E ev \in OutcomeOf(n) : ev.e \in {"fail", "timeout"}
    /\ (rtPc = "returned" /\ ~rtOut.success)
          => /\ Cardinality(OpsMade) = rtMaxRetries
             /\ \A n \in 1..rtMaxRetries :
                   \E ev \in OutcomeOf(n) : ev.e \in {"fail", "timeout"}
             /\ rtLog[Len(rtLog)].e \in {"fail", "timeout"}
             /\ rtLog[Len(rtLog)].n = rtMaxRetries
             /\ rtOut.error = rtLog[Len(rtLog)].msg

\* C31: executeWithRetry never throws and always terminates: it runs the
\* operation at most maxRetries times, returns success:true with the result
\* of the first attempt that succeeds without running further attempts, and
\* returns success:false carrying the last attempt's error message only after
\* all maxRetries attempts failed or timed out; no sleep follows the last
\* attempt.
C31_RetryTerminatesWithoutThrowing ==
    /\ []C31_Safety
    /\ (rtPc \in {"attempt", "racing", "sleeping"}) ~> (rtPc = "returned")

C31_Witness ==
    /\ rtPc = "returned" /\ ~rtOut.success
    /\ rtMaxRetries = 3
    /\ rtOut.error = "Text generation failed"
    /\ rtLog[2].e = "timeout"

\* C34: in executeWithRetry at most one attempt of the operation is in flight
\* at any time: when an attempt times out, that attempt is no longer running
\* by the time the next attempt starts.
C34_OneAttemptInFlight ==
    /\ Cardinality(rtRunning) <= 1
    /\ rtPc = "racing" => rtRunning = {rtAttempt}

(***************************************************************************)
(* Specification of GenerationAgentImpl.generateWithVerification: its own   *)
(* executeWithRetry around generate(), which runs executeWithRetry around   *)
(* the call of the model client                                             *)
(***************************************************************************)
nonGenerationVars == <<earlyVars, rtVars, epVars, orVars>>

InitGeneration ==
    /\ EarlyIdle /\ RtIdle /\ EpIdle /\ OrIdle
    /\ gvMaxRetries \in 1..MaxRetriesCfg
    /\ gvOuter = 0
    /\ gvInner = 0
    /\ gvGenerations = 0
    /\ gvOut = NoResult
    /\ gvPc = "idle"

\* generateWithVerification(prompt, context, options) up to the first attempt
GenerateWithVerificationStart ==
    /\ gvPc \in {"idle", "returned"}
    /\ gvOuter' = 1 /\ gvInner' = 0 /\ gvGenerations' = 0
    /\ gvOut' = NoResult
    /\ gvPc' = "outer"
    /\ UNCHANGED <<gvMaxRetries, nonGenerationVars>>

\* an attempt of the outer loop calls this.generate(), whose executeWithRetry
\* starts at attempt 1
OuterAttempt ==
    /\ gvPc = "outer"
    /\ gvInner' = 1
    /\ gvPc' = "inner"
    /\ UNCHANGED <<gvMaxRetries, gvOuter, gvGenerations, gvOut, nonGenerationVars>>

\* the outer catch block and loop test: the next outer attempt, or the
\* failure result of generateWithVerification
OuterCatch ==
    IF gvOuter + 1 <= gvMaxRetries
    THEN gvOuter' = gvOuter + 1 /\ gvPc' = "outer" /\ gvOut' = gvOut
    ELSE /\ gvOuter' = gvOuter + 1 /\ gvPc' = "returned"
         /\ gvOut' = RetryFailure(ErrorOf("Text generation failed"))

\* generate's loop test after a failed attempt: attempt + 1 <= maxRetries
InnerLoopGoesOn(att, maxRetries) == att + 1 <= maxRetries

\* one attempt of generate's operation: the client is asked for a text; the
\* attempt resolves, rejects or loses its race against the timer
GenerateAttempt(outcome) ==
    /\ gvPc = "inner"
    /\ gvGenerations' = gvGenerations + 1
    /\ IF outcome = "ok"
       THEN gvPc' = "verify" /\ UNCHANGED <<gvOuter, gvInner, gvOut>>
       ELSE IF InnerLoopGoesOn(gvInner, gvMaxRetries)
       THEN gvInner' = gvInner + 1 /\ UNCHANGED <<gvOuter, gvOut, gvPc>>
       ELSE \* generate returns success: false and the outer operation throws
            gvInner' = gvInner + 1 /\ OuterCatch
    /\ UNCHANGED <<gvMaxRetries, nonGenerationVars>>

\* verifyGeneration catches its own errors; the outer attempt resolves
VerifyGeneration ==
    /\ gvPc = "verify"
    /\ \E verified \in BOOLEAN :
          gvOut' = RetrySuccess([text |-> gvGenerations, verified |-> verified])
    /\ gvPc' = "returned"
    /\ UNCHANGED <<gvMaxRetries, gvOuter, gvInner, gvGenerations, nonGenerationVars>>

\* the timer of the outer attempt fires while generate() is still at work
OuterTimeoutFires ==
    /\ gvPc \in {"inner", "verify"}
    /\ OuterCatch
    /\ UNCHANGED <<gvMaxRetries, gvInner, gvGenerations, nonGenerationVars>>

NextGeneration ==
    \/ GenerateWithVerificationStart
    \/ OuterAttempt
    \/ \E outcome \in {"ok", "fail", "timeout"} : GenerateAttempt(outcome)
    \/ VerifyGeneration
    \/ OuterTimeoutFires

SpecGeneration == InitGeneration /\ [][NextGeneration]_vars

\* C35: one call to generateWithVerification performs at most maxRetries
\* generation attempts in total: the retry loops of generateWithVerification
\* and of the generate call it wraps do not multiply.
C35_RetriesDoNotMultiply == gvGenerations <= gvMaxRetries

(***************************************************************************)
(* Specification of LangGraphWorkflow.executeParallel: the two agents run   *)
(* under Promise.allSettled, then the synthesis node is called directly     *)
(***************************************************************************)
nonParallelVars == <<earlyVars, rtVars, gvVars, orVars>>

InitParallel ==
    /\ EarlyIdle /\ RtIdle /\ GvIdle /\ OrIdle
    /\ epQuestion = <<>>
    /\ epSettled = <<>>
    /\ epRag = NoResult /\ epBlz = NoResult
    /\ epOut = NoResult
    /\ epPc = "idle"

\* fetchBlizzardData calls the Blizzard service, and so can throw, only for a
\* question that names a realm
AsksBlizzardService(q) == Includes(ToLowerCase(q), <<"r","e","a","l","m">>)

Settled(agent) == \E i \in 1..Len(epSettled) : epSettled[i] = agent

\* executeParallel(question, vectorStore): both agent promises are created
ExecuteParallelStart ==
    /\ epPc \in {"idle", "returned"}
    /\ \E q \in Questions : epQuestion' = q
    /\ epSettled' = <<>>
    /\ epRag' = NoResult /\ epBlz' = NoResult
    /\ epOut' = NoResult
    /\ epPc' = "agents"
    /\ UNCHANGED nonParallelVars

\* executeRagAgent resolves: with ragResult, or with undefined when the node
\* caught an error and returned rag_failed
RagAgentSettles ==
    /\ epPc = "agents"
    /\ ~Settled("rag")
    /\ \/ \E sources \in 0..3, longAnswer \in BOOLEAN :
            epRag' = AgentResultOf("RAG", calculateConfidence(sources, longAnswer), {"rag"})
       \/ epRag' = NoResult
    /\ epSettled' = Append(epSettled, "rag")
    /\ UNCHANGED <<epQuestion, epBlz, epOut, epPc, nonParallelVars>>

\* executeBlizzardAgent resolves: with blizzardResult, or with undefined when
\* the node caught an error and returned blizzard_failed
BlizzardAgentSettles ==
    /\ epPc = "agents"
    /\ ~Settled("blizzard")
    /\ \/ epBlz' = AgentResultOf("Blizzard", 8, {"blizzard"})
       \/ AsksBlizzardService(epQuestion) /\ epBlz' = NoResult
    /\ epSettled' = Append(epSettled, "blizzard")
    /\ UNCHANGED <<epQuestion, epRag, epOut, epPc, nonParallelVars>>

\* Promise.allSettled resolves; the synthesis node runs on the two results and
\* executeParallel returns finalResult, or the fallback when synthesis failed
SynthesizeAndReturn ==
    /\ epPc = "agents"
    /\ Settled("rag") /\ Settled("blizzard")
    /\ \/ epOut' = [kind |-> "returned",
                    result |-> AgentResultOf("Synthesis",
                                  calculateFinalConfidence(epRag, epBlz),
                                  (IF epRag # NoResult THEN {"rag"} ELSE {})
                                     \cup (IF epBlz # NoResult THEN {"blizzard"} ELSE {}))]
       \/ epOut' = [kind |-> "returned", result |-> createFallbackResult(epRag, epBlz)]
    /\ epPc' = "returned"
    /\ UNCHANGED <<epQuestion, epSettled, epRag, epBlz, nonParallelVars>>

NextParallel ==
    \/ ExecuteParallelStart
    \/ RagAgentSettles
    \/ BlizzardAgentSettles
    \/ SynthesizeAndReturn

SpecParallel == InitParallel /\ [][NextParallel]_vars

\* C33: executeParallel always returns an AgentResult and never throws: the
\* RAG and Blizzard agents run concurrently, the failure of one agent does not
\* prevent the other agent's result from being used in synthesis, and when
\* both fail a fallback or error result is still returned.
C33_ParallelAlwaysAnswers ==
    /\ epOut # NoResult => epOut.kind = "returned"
    /\ (epPc = "returned" /\ epOut.result.agent = "Synthesis")
          => /\ epRag # NoResult => "rag" \in epOut.result.parts
             /\ epBlz # NoResult => "blizzard" \in epOut.result.parts
    /\ (epPc = "returned" /\ epRag = NoResult /\ epBlz = NoResult)
          => epOut.result.agent \in {"Fallback", "Error"}

(***************************************************************************)
(* Specification of AgentOrchestratorImpl: registerAgent and the two        *)
(* indexes, and executeWorkflow over the registered agents                  *)
(***************************************************************************)
MaxRegistrations == 2
MaxSteps == 2

AgentNames == {"retrieval-agent", "generation-agent"}
AgentTypes == {"retrieval", "generation"}

Agent(name, type) == [name |-> name, type |-> type]
NoAgent == Agent("", "")

\* this.agentsByType.get(agent.type)!.push(agent)
PushAgent(list, agent) == Append(list, agent)

\* getAgent(name)
getAgent(name) == orAgents[name]

\* getAgentsByType(type)
getAgentsByType(type) == orAgentsByType[type]

\* getWorkflowStats().totalAgents: this.agents.size
totalAgents == Cardinality({n \in AgentNames : orAgents[n] # NoAgent})

\* the steps a workflow is made of: a retrieval step, a generation step, and
\* a generation step under the condition that the context has documents
WorkflowSteps ==
    {[agentName |-> "retrieval-agent", agentType |-> "retrieval", condition |-> FALSE],
     [agentName |-> "generation-agent", agentType |-> "generation", condition |-> FALSE],
     [agentName |-> "generation-agent", agentType |-> "generation", condition |-> TRUE]}

FallbackStrategies == {"skip", "retry", "alternative"}

RECURSIVE StepLists(_)
StepLists(n) ==
    IF n = 0 THEN {<<>>}
    ELSE StepLists(n - 1)
            \cup {Append(l, st) : l \in {x \in StepLists(n - 1) : Len(x) = n - 1},
                                  st \in WorkflowSteps}

\* a variant that takes every condition as met
ConditionMetAlways(step, context) == TRUE

\* step.condition: !!context.documents && context.documents.length > 0
ConditionMet(step, context) == step.condition => context.documents # 0

\* an AgentResult of a step; run numbers the executeWorkflowStep calls of the
\* workflow run, and the data of a success is named after its run
StepResult(success, run) == [success |-> success, data |-> IF success THEN run ELSE 0, run |-> run]

\* executeWorkflowStep: the agent of the step's name, else the first agent of
\* the step's type
StepAgent(step) ==
    IF getAgent(step.agentName) # NoAgent THEN getAgent(step.agentName)
    ELSE IF getAgentsByType(step.agentType) # <<>> THEN getAgentsByType(step.agentType)[1]
    ELSE NoAgent

\* executeWorkflowStep: the results it can resolve with
StepOutcomes(step, run) ==
    IF StepAgent(step) = NoAgent THEN {StepResult(FALSE, run)}
    ELSE {StepResult(TRUE, run), StepResult(FALSE, run)}

\* updateContextWithStepResult
updateContextWithStepResult(context, stepResult, step) ==
    [documents |-> IF stepResult.success /\ stepResult.data # 0
                      /\ step.agentType = "retrieval"
                   THEN stepResult.data ELSE context.documents,
     previousResults |-> Append(context.previousResults, stepResult)]

WorkflowEvent(e, step, ok, context) ==
    [e |-> e, step |-> step, ok |-> ok, docs |-> context.documents]

\* createWorkflowFailureResult
createWorkflowFailureResult(stepResults) ==
    [kind |-> "returned", success |-> FALSE, stepResults |-> stepResults,
     finalContext |-> NoResult]

nonOrchestratorVars == <<earlyVars, rtVars, gvVars, epVars>>

InitOrchestrator ==
    /\ EarlyIdle /\ RtIdle /\ GvIdle /\ EpIdle
    /\ orAgents = [n \in AgentNames |-> NoAgent]
    /\ orAgentsByType = [t \in AgentTypes |-> <<>>]
    /\ orCalls = 0
    /\ owWorkflow = NoResult
    /\ owIndex = 0
    /\ owContext = NoResult
    /\ owStepResults = <<>>
    /\ owLog = <<>>
    /\ owOut = NoResult
    /\ owPc = "idle"

\* registerAgent(agent)
RegisterAgent(agent) ==
    /\ owPc = "idle"
    /\ orCalls < MaxRegistrations
    /\ orAgents' = [orAgents EXCEPT ![agent.name] = agent]
    /\ orAgentsByType' = [orAgentsByType EXCEPT ![agent.type] = PushAgent(@, agent)]
    /\ orCalls' = orCalls + 1
    /\ UNCHANGED <<owWorkflow, owIndex, owContext, owStepResults, owLog, owOut, owPc,
                   nonOrchestratorVars>>

\* executeWorkflow(workflow, context) up to the loop over the steps
ExecuteWorkflowStart ==
    /\ owPc \in {"idle", "returned"}
    /\ \E steps \in StepLists(MaxSteps), strategy \in FallbackStrategies :
          owWorkflow' = [steps |-> steps, fallbackStrategy |-> strategy]
    /\ owIndex' = 1
    /\ owContext' = [documents |-> 0, previousResults |-> <<>>]
    /\ owStepResults' = <<>>
    /\ owLog' = <<>>
    /\ owOut' = NoResult
    /\ owPc' = "loop"
    /\ UNCHANGED <<orAgents, orAgentsByType, orCalls, nonOrchestratorVars>>

\* a step whose condition is not met: continue
ConditionSkipsStep ==
    /\ owPc = "loop"
    /\ owIndex <= Len(owWorkflow.steps)
    /\ ~ConditionMet(owWorkflow.steps[owIndex], owContext)
    /\ owLog' = Append(owLog, WorkflowEvent("unmet", owIndex, FALSE, owContext))
    /\ owIndex' = owIndex + 1
    /\ UNCHANGED <<orAgents, orAgentsByType, orCalls, owWorkflow, owContext,
                   owStepResults, owOut, owPc, nonOrchestratorVars>>

\* a step is executed and its result handled by the fallback strategy
StepExecutes ==
    /\ owPc = "loop"
    /\ owIndex <= Len(owWorkflow.steps)
    /\ ConditionMet(owWorkflow.steps[owIndex], owContext)
    /\ \E stepResult \in StepOutcomes(owWorkflow.steps[owIndex], Len(owStepResults) + 1) :
          /\ owStepResults' = Append(owStepResults, stepResult)
          /\ owLog' = Append(owLog, WorkflowEvent("exec", owIndex, stepResult.success,
                                                  owContext))
          /\ IF stepResult.success
             THEN /\ owContext' = updateContextWithStepResult(owContext, stepResult,
                                                              owWorkflow.steps[owIndex])
                  /\ owIndex' = owIndex + 1
                  /\ UNCHANGED <<owOut, owPc>>
             ELSE IF owWorkflow.fallbackStrategy = "skip"
             THEN /\ owIndex' = owIndex + 1
                  /\ UNCHANGED <<owContext, owOut, owPc>>
             ELSE IF owWorkflow.fallbackStrategy = "retry"
             THEN /\ owPc' = "retry"
                  /\ UNCHANGED <<owIndex, owContext, owOut>>
             ELSE /\ owOut' = createWorkflowFailureResult(owStepResults')
                  /\ owPc' = "returned"
                  /\ UNCHANGED <<owIndex, owContext>>
    /\ UNCHANGED <<orAgents, orAgentsByType, orCalls, owWorkflow, nonOrchestratorVars>>

\* the retry of a failed step: retryResult takes the place of the failed
\* result in stepResults; the context is updated with stepResult
RetryExecutes ==
    /\ owPc = "retry"
    /\ \E retryResult \in StepOutcomes(owWorkflow.steps[owIndex], Len(owStepResults) + 1) :
          /\ owStepResults' = [owStepResults EXCEPT ![Len(owStepResults)] = retryResult]
          /\ owLog' = Append(owLog, WorkflowEvent("retry", owIndex, retryResult.success,
                                                  owContext))
          /\ IF ~retryResult.success
             THEN /\ owOut' = createWorkflowFailureResult(owStepResults')
                  /\ owPc' = "returned"
                  /\ UNCHANGED <<owIndex, owContext>>
             ELSE /\ owContext' = updateContextWithStepResult(owContext,
                                      owStepResults[Len(owStepResults)],
                                      owWorkflow.steps[owIndex])
                  /\ owIndex' = owIndex + 1
                  /\ owPc' = "loop"
                  /\ UNCHANGED owOut
    /\ UNCHANGED <<orAgents, orAgentsByType, orCalls, owWorkflow, nonOrchestratorVars>>

\* the loop is over: success with stepResults and finalContext
WorkflowReturns ==
    /\ owPc = "loop"
    /\ owIndex > Len(owWorkflow.steps)
    /\ owOut' = [kind |-> "returned", success |-> TRUE, stepResults |-> owStepResults,
                 finalContext |-> owContext]
    /\ owPc' = "returned"
    /\ UNCHANGED <<orAgents, orAgentsByType, orCalls, owWorkflow, owIndex, owContext,
                   owStepResults, owLog, nonOrchestratorVars>>

NextOrchestrator ==
    \/ \E name \in AgentNames, type \in AgentTypes : RegisterAgent(Agent(name, type))
    \/ ExecuteWorkflowStart
    \/ ConditionSkipsStep
    \/ StepExecutes
    \/ RetryExecutes
    \/ WorkflowReturns

SpecOrchestrator == InitOrchestrator /\ [][NextOrchestrator]_vars

\* the events of the run's history that are not retries: one per step looked at
FirstLooks == {i \in 1..Len(owLog) : owLog[i].e # "retry"}

\* C32: executeWorkflow handles a failed step by the workflow's fallback
\* strategy: with 'skip' the failed step is skipped and the remaining steps
\* still run; with 'retry' the step is executed exactly once more and the
\* workflow fails if that also fails; with any other strategy the workflow
\* fails at the first failed step and no later step runs. A step whose
\* condition is false is never executed, and executeWorkflow never throws.
C32_FallbackStrategyHandlesFailure ==
    owPc \in {"loop", "retry", "returned"} =>
       LET steps == owWorkflow.steps
           strategy == owWorkflow.fallbackStrategy
       IN  /\ owOut # NoResult => owOut.kind = "returned"
           /\ \A i \in 1..Len(owLog) :
                 \* the steps are looked at in order, each once
                 /\ owLog[i].e # "retry"
                       => owLog[i].step = Cardinality({j \in FirstLooks : j <= i})
                 \* a step whose condition is false is not executed
                 /\ steps[owLog[i].step].condition
                       => (owLog[i].e = "unmet" <=> owLog[i].docs = 0)
                 /\ owLog[i].e = "unmet" => steps[owLog[i].step].condition
                 \* a retry follows a failed execution of the same step, under 'retry'
                 /\ owLog[i].e = "retry"
                       => /\ strategy = "retry"
                          /\ i > 1
                          /\ owLog[i - 1].e = "exec" /\ ~owLog[i - 1].ok
                          /\ owLog[i - 1].step = owLog[i].step
                 \* a failed execution
                 /\ (owLog[i].e = "exec" /\ ~owLog[i].ok)
                       => IF strategy = "skip"
                          THEN (owPc = "returned"
                                  => owOut.success /\ Cardinality(FirstLooks) = Len(steps))
                          ELSE IF strategy = "retry"
                          THEN IF i = Len(owLog) THEN owPc = "retry"
                               ELSE owLog[i + 1].e = "retry"
                          ELSE i = Len(owLog) /\ owPc = "returned" /\ ~owOut.success
                 \* a failed retry ends the workflow
                 /\ (owLog[i].e = "retry" /\ ~owLog[i].ok)
                       => i = Len(owLog) /\ owPc = "returned" /\ ~owOut.success
           /\ (owPc = "returned" /\ owOut.success)
                 => Cardinality(FirstLooks) = Len(steps)
           /\ (owPc = "returned" /\ ~owOut.success)
                 => /\ owLog # <<>>
                    /\ ~owLog[Len(owLog)].ok
                    /\ strategy # "skip"

C32_Witness ==
    /\ owPc = "returned" /\ owOut.success
    /\ owWorkflow.fallbackStrategy = "retry"
    /\ Len(owLog) = 3
    /\ owLog[2].e = "retry" /\ owLog[2].ok
    /\ owLog[3].e = "unmet"

\* C36: in executeWorkflow with fallback strategy 'retry', when the retried
\* step succeeds the context passed to the following steps is updated from
\* the successful retry result: its data is applied to the context and it is
\* the result appended to previousResults.
C36_ContextUpdatedFromRetry ==
    (/\ owPc \in {"loop", "returned"}
     /\ owLog # <<>>
     /\ owLog[Len(owLog)].e = "retry" /\ owLog[Len(owLog)].ok)
       => LET retryResult == owStepResults[Len(owStepResults)]
              previous == owContext.previousResults
          IN  /\ previous # <<>>
              /\ previous[Len(previous)] = retryResult
              /\ owWorkflow.steps[owLog[Len(owLog)].step].agentType = "retrieval"
                    => owContext.documents = retryResult.data

\* C37: after any sequence of registerAgent calls the orchestrator's two
\* indexes agree: the number of agents in the by-name map equals the total
\* number of entries in the by-type lists, every registered name appears
\* exactly once in its type's list, and getAgentsByType(t) returns exactly the
\* agents that getAgent can return with type t.
C37_IndexesAgree ==
    /\ totalAgents
          = Cardinality({p \in AgentTypes \X (1..orCalls) :
                            p[2] <= Len(getAgentsByType(p[1]))})
    /\ \A n \in AgentNames :
          getAgent(n) # NoAgent
             => Cardinality({i \in 1..Len(getAgentsByType(getAgent(n).type)) :
                                getAgentsByType(getAgent(n).type)[i].name = n}) = 1
    /\ \A t \in AgentTypes :
          {getAgentsByType(t)[i] : i \in 1..Len(getAgentsByType(t))}
             = {getAgent(n) : n \in {m \in AgentNames : getAgent(m) # NoAgent
                                                       /\ getAgent(m).type = t}}

====
